---- MODULE Spec2Model ----
(***************************************************************************)
(* A model of the execution core of sparql-engine: the BGP semantic cache, *)
(* the plan builder's handling of LIMIT/OFFSET and caching, the BIND       *)
(* operator with the SPARQL expression compiler, and the two join          *)
(* operators built on Bindings.union.                                      *)
(***************************************************************************)
EXTENDS Integers, Sequences, FiniteSets, Bags, TLC

VARIABLES
    cache,      \* the BGP cache: staged buffers, committed entries, insertion order
    readers,    \* the results of the get() calls made so far (null or a future)
    sent,       \* history: per (key, writer), the mappings passed to update() so far
    winner,     \* history: per committed key, the first committer and what it had sent
    called,     \* history: the keys for which update() or commit() was ever called
    nUpdates,   \* number of update() calls made so far
    commits,    \* history: the (key, writer) of the commit() calls made so far
    evicted,    \* history: the keys evicted or deleted so far
    discarded,  \* history: the mappings that were staged when their key was evicted
    cacheOn,    \* PlanBuilder._currentCache is not null
    currentCache, \* PlanBuilder._currentCache: which cache object is installed
    qpc,        \* the query being run: "idle", "running" or "done"
    query,      \* the parsed query given to build()
    ctx,        \* the execution context derived for the query
    branches,   \* the BGP evaluations of the WHERE clause, one per UNION branch
    produced,   \* number of mappings the WHERE clause has produced
    results,    \* the mappings delivered to the consumer of the plan
    bexpr,      \* BIND: the expression of BIND(expr AS ?target)
    binput,     \* BIND: the mappings the source delivers, in order
    bpc,        \* BIND: "idle", "failed" (the build threw), "running", "errored", "done"
    bpos,       \* BIND: number of input mappings processed
    bout,       \* BIND: the mappings emitted so far
    berr,       \* BIND: an error was delivered to the subscriber
    jkind,      \* join: "indexJoin" or "bgpEvaluation"
    jin,        \* join: the input mapping
    jpattern,   \* join: the triple pattern joined with
    jitems,     \* join: what the backend has delivered so far
    jout,       \* join: the mappings emitted so far
    jpc,        \* join: "idle", "running", "errored" or "done"
    vclauses,   \* VALUES: the VALUES clauses of the WHERE clause
    vbranches,  \* VALUES: the merged branches, each with its position
    vout,       \* VALUES: the bag of mappings delivered so far
    vpc,        \* VALUES: "idle", "running" or "done"
    mquery,     \* modifiers: the query whose modifiers are applied
    minput,     \* modifiers: the solutions of its WHERE clause
    mseq,       \* modifiers: the output of the last stage applied
    mstage,     \* modifiers: number of stages applied
    mpc,        \* modifiers: "idle", "running" or "done"
    sm1,        \* set operations: the receiver mapping, as it is now
    sm2,        \* set operations: the argument mapping, as it is now
    sorig,      \* set operations: the two mappings as they were built
    sdone,      \* set operations: the operations called so far
    sres,       \* set operations: what each operation returned
    spc,        \* set operations: "idle" or "ready"
    dataset,    \* update: the named graphs of the dataset and whether it has a graph factory
    ubefore,    \* update: the dataset as it was when build() was called
    urequest,   \* update: the updates of the request given to build()
    uplan,      \* update: what build() returned: "none", "consumable" or "threw"
    upos,       \* update: number of updates of the request executed
    upc,        \* update: "idle", "built", "executing", "done" or "failed"
    gpatterns,  \* BGP stage: the classic patterns of the BGP given to execute()
    gqueries,   \* BGP stage: the full-text-search queries extracted from the BGP
    ggraphVar,  \* BGP stage: the active graph of the context is a variable
    ginput,     \* BGP stage: the mappings of the source, in order
    gpos,       \* BGP stage: number of input mappings processed
    gout,       \* BGP stage: the mappings emitted, with the FTS queries applied to each
    gpc,        \* BGP stage: "idle", "running", "errored" or "done"
    dquery,     \* DESCRIBE: the parsed query given to _buildQueryPlan
    dplanned,   \* DESCRIBE: the query the plan steps are built from
    dinput,     \* DESCRIBE: the solutions of the WHERE clause of the planned query
    dout,       \* DESCRIBE: the triples the plan emits
    dpc,        \* DESCRIBE: "idle", "built" or "done"
    nquery,     \* nesting: the parsed query given to build()
    ncache,     \* nesting: a cache is set on the context of the query
    nplan,      \* nesting: the BGP stages of the plan, each with the context it was built with
    npos,       \* nesting: number of BGP stages evaluated
    ncached,    \* nesting: the BGP stages that went through the cache
    npc,        \* nesting: "idle", "running" or "done"
    aexprs,     \* aggregates: the aggregate expressions of the successive BIND stages
    aorig,      \* aggregates: the __aggregate group of the mapping as the aggregate stage built it
    arows,      \* aggregates: the __aggregate group as it is now (shared by the clones of the mapping)
    ares,       \* aggregates: the results of the expressions evaluated so far
    apc,        \* aggregates: "idle", "running" or "done"
    ttree,      \* the parsed query tree held by the caller
    tparsed,    \* the tree as the parser returned it
    tgiven,     \* the trees given to the calls of _buildQueryPlan
    tplans,     \* the plans the calls returned
    tpc,        \* parsing and building a parsed query
    xsource,    \* the items the source emits and how it ends
    xpos,       \* number of items the source has emitted
    xwarmup,    \* no head written yet
    xout,       \* the chunks given to the subscriber of the formatted pipeline
    xstream,    \* the xml stream is open, closing or ended
    xsub,       \* the formatted pipeline is open, completed or errored
    xlog,       \* the errors written to the console
    xpc         \* formatting a source

cacheVars == <<cache, readers, sent, winner, called, nUpdates, commits, evicted, discarded>>

queryVars == <<cacheOn, currentCache, qpc, query, ctx, branches, produced, results>>

bindVars == <<bexpr, binput, bpc, bpos, bout, berr>>

joinVars == <<jkind, jin, jpattern, jitems, jout, jpc>>

valuesVars == <<vclauses, vbranches, vout, vpc>>

modVars == <<mquery, minput, mseq, mstage, mpc>>

setVars == <<sm1, sm2, sorig, sdone, sres, spc>>

updateVars == <<dataset, ubefore, urequest, uplan, upos, upc>>

stageVars == <<gpatterns, gqueries, ggraphVar, ginput, gpos, gout, gpc>>

describeVars == <<dquery, dplanned, dinput, dout, dpc>>

nestVars == <<nquery, ncache, nplan, npos, ncached, npc>>

aggVars == <<aexprs, aorig, arows, ares, apc>>

treeVars == <<ttree, tparsed, tgiven, tplans, tpc>>

xmlVars == <<xsource, xpos, xwarmup, xout, xstream, xsub, xlog, xpc>>

vars == <<cacheVars, queryVars, bindVars, joinVars, valuesVars, modVars, setVars, updateVars, stageVars, describeVars, nestVars, aggVars, treeVars, xmlVars>>

(***************************************************************************)
(* Bounds of the model                                                     *)
(***************************************************************************)
MaxUpdates == 2
MaxCommits == 2
MaxReaders == 1
MaxEvicts == 1
GraphSize == 2
MaxInputs == 2
MaxItems == 2
MaxRows == 2
MaxSolutions == 3
MaxObjects == 3
MaxLimit == 2
MaxOffset == 1

MaxRequest == 2

MaxTriples == 1

MaxStageInputs == 1

MaxFts == 1

MaxDescribed == 1

MaxDescribeSolutions == 2

MaxGroups == 2

MaxGroupRows == 2

MaxAggregates == 2

\* triple patterns, named by their rank in the canonical order of a BGP key
Patterns == {1, 2, 3}
GraphIRIs == {"gA", "gB"}
Writers == {"W1", "W2"}

(***************************************************************************)
(* Basic Graph Patterns and their canonical key                            *)
(***************************************************************************)
Range(s) == {s[i] : i \in DOMAIN s}

IsInjective(s) == \A i, j \in DOMAIN s : s[i] = s[j] => i = j

PatternLists == {s \in UNION {[1..n -> Patterns] : n \in 0..Cardinality(Patterns)} : IsInjective(s)}

\* every BGP a caller can ask the cache about
BGPs == [patterns : PatternLists \ {<<>>}, graphIRI : GraphIRIs]

RECURSIVE SortedSeq(_)
SortedSeq(S) ==
    IF S = {} THEN <<>>
    ELSE LET lo == CHOOSE x \in S : \A y \in S : x <= y
         IN <<lo>> \o SortedSeq(S \ {lo})

\* the key of a BGP: its patterns sorted, plus the graph IRI
Key(bgp) == [patterns |-> SortedSeq(Range(bgp.patterns)), graphIRI |-> bgp.graphIRI]

\* the BGPs the writers of this model evaluate
WriteBGPs ==
    { [patterns |-> <<1>>, graphIRI |-> "gA"],
      [patterns |-> <<3, 1>>, graphIRI |-> "gA"] }

(***************************************************************************)
(* The cache (section 4.5): writer-private staging buffers indexed by      *)
(* (key, writer), at most one committed entry per key.                     *)
(***************************************************************************)
EmptyCache == [staged |-> <<>>, committed |-> <<>>, order |-> <<>>]

Restrict(f, S) == [x \in S |-> f[x]]

has(c, bgp) == Key(bgp) \in DOMAIN c.committed

count(c) == Cardinality(DOMAIN c.committed)

StagedWriters(c, k) == {w \in Writers : <<k, w>> \in DOMAIN c.staged}

\* some writer has touched the key: a staged buffer or a committed entry exists
touched(c, bgp) == has(c, bgp) \/ StagedWriters(c, Key(bgp)) # {}

Buffer(c, k, w) == IF <<k, w>> \in DOMAIN c.staged THEN c.staged[<<k, w>>] ELSE <<>>

\* (a faulty variant of update: the new mapping is put in front of the buffer)
updateNewestFirst(c, bgp, m, w) ==
    LET k == Key(bgp)
    IN IF has(c, bgp) THEN c
       ELSE [c EXCEPT !.staged = (<<k, w>> :> (<<m>> \o Buffer(c, k, w))) @@ c.staged]

\* (a faulty variant of update: a mapping arriving after the commit is added to the entry)
updateIntoCommitted(c, bgp, m, w) ==
    LET k == Key(bgp)
    IN IF has(c, bgp) THEN [c EXCEPT !.committed[k] = Append(@, m)]
       ELSE [c EXCEPT !.staged = (<<k, w>> :> Append(Buffer(c, k, w), m)) @@ c.staged]

\* update(bgp, mapping, writerID): dropped once the key is committed
update(c, bgp, m, w) ==
    LET k == Key(bgp)
    IN IF has(c, bgp) THEN c
       ELSE [c EXCEPT !.staged = (<<k, w>> :> Append(Buffer(c, k, w), m)) @@ c.staged]

\* (a faulty variant of commit: the last committer replaces the entry)
commitLastWins(c, bgp, w) ==
    LET k == Key(bgp)
        rest == Restrict(c.staged, DOMAIN c.staged \ {<<k, w>>})
    IN [staged |-> rest,
        committed |-> (k :> Buffer(c, k, w)) @@ c.committed,
        order |-> IF has(c, bgp) THEN c.order ELSE Append(c.order, k)]

\* commit(bgp, writerID): the first committer installs its buffer, a late one loses its buffer
commit(c, bgp, w) ==
    LET k == Key(bgp)
        rest == Restrict(c.staged, DOMAIN c.staged \ {<<k, w>>})
    IN IF has(c, bgp) THEN [c EXCEPT !.staged = rest]
       ELSE [staged |-> rest,
             committed |-> (k :> Buffer(c, k, w)) @@ c.committed,
             order |-> Append(c.order, k)]

\* (a faulty variant of get: null unless the key is committed)
getCommittedOnly(c, bgp) ==
    LET k == Key(bgp)
    IN IF has(c, bgp) THEN [key |-> k, status |-> "resolved", value |-> c.committed[k]]
       ELSE [key |-> k, status |-> "null", value |-> <<>>]

\* get(bgp): null when nobody touched the key, else a future, resolved once committed
get(c, bgp) ==
    LET k == Key(bgp)
    IN IF ~touched(c, bgp) THEN [key |-> k, status |-> "null", value |-> <<>>]
       ELSE IF has(c, bgp) THEN [key |-> k, status |-> "resolved", value |-> c.committed[k]]
       ELSE [key |-> k, status |-> "pending", value |-> <<>>]

\* (a faulty variant of evict: only the committed entry is removed)
evictCommittedOnly(c, bgp) ==
    LET k == Key(bgp)
    IN [c EXCEPT !.committed = Restrict(c.committed, DOMAIN c.committed \ {k}),
                 !.order = SelectSeq(c.order, LAMBDA x : x # k)]

\* eviction or delete(bgp): the entry of the key and every staged buffer for it go
evict(c, bgp) ==
    LET k == Key(bgp)
    IN [staged |-> Restrict(c.staged, {x \in DOMAIN c.staged : x[1] # k}),
        committed |-> Restrict(c.committed, DOMAIN c.committed \ {k}),
        order |-> SelectSeq(c.order, LAMBDA x : x # k)]

\* the pending futures of a key that is no longer in the cache fail
Fail(rs, c) ==
    [i \in DOMAIN rs |->
        IF /\ rs[i].status = "pending"
           /\ rs[i].key \notin DOMAIN c.committed
           /\ StagedWriters(c, rs[i].key) = {}
        THEN [rs[i] EXCEPT !.status = "failed"]
        ELSE rs[i]]

\* a placeholder key, never the key of an entry (an entry has at least one pattern)
NoKey == [patterns |-> <<>>, graphIRI |-> "none"]

Qualifies(k, bgp) ==
    k.graphIRI = bgp.graphIRI /\ Range(k.patterns) \subseteq Range(bgp.patterns)

\* tie-break of findSubset: more patterns, then more mappings, then insertion order
Better(c, k1, k2) ==
    \/ Len(k1.patterns) > Len(k2.patterns)
    \/ Len(k1.patterns) = Len(k2.patterns) /\ Len(c.committed[k1]) > Len(c.committed[k2])

RECURSIVE BestSubset(_, _, _, _)
BestSubset(c, bgp, i, best) ==
    IF i > Len(c.order) THEN best
    ELSE LET k == c.order[i]
             take == Qualifies(k, bgp) /\ (best = NoKey \/ Better(c, k, best))
         IN BestSubset(c, bgp, i + 1, IF take THEN k ELSE best)

RECURSIVE FirstSubset(_, _, _)
FirstSubset(c, bgp, i) ==
    IF i > Len(c.order) THEN NoKey
    ELSE IF Qualifies(c.order[i], bgp) THEN c.order[i] ELSE FirstSubset(c, bgp, i + 1)

\* (a faulty variant of findSubset: the first qualifying entry instead of the largest)
findSubsetFirst(c, bgp) ==
    LET best == FirstSubset(c, bgp, 1)
    IN <<best.patterns, SelectSeq(bgp.patterns, LAMBDA p : p \notin Range(best.patterns))>>

\* findSubset(bgp) = (patterns of the largest committed subset, missing patterns)
findSubset(c, bgp) ==
    LET best == BestSubset(c, bgp, 1, NoKey)
    IN <<best.patterns, SelectSeq(bgp.patterns, LAMBDA p : p \notin Range(best.patterns))>>

(***************************************************************************)
(* The cache used directly through its API (as bgp-cache-test.js does)     *)
(***************************************************************************)
Keys == {Key(b) : b \in WriteBGPs}

InitCache ==
    /\ cache = EmptyCache
    /\ readers = <<>>
    /\ sent = [x \in Keys \X Writers |-> <<>>]
    /\ winner = <<>>
    /\ called = {}
    /\ nUpdates = 0
    /\ commits = <<>>
    /\ evicted = <<>>
    /\ discarded = {}

\* a writer passes a new mapping (named by the rank of the call) to update()
Update(bgp, w) ==
    /\ nUpdates < MaxUpdates
    /\ nUpdates' = nUpdates + 1
    /\ cache' = update(cache, bgp, nUpdates + 1, w)
    /\ sent' = [sent EXCEPT ![<<Key(bgp), w>>] = Append(@, nUpdates + 1)]
    /\ called' = called \cup {Key(bgp)}
    /\ UNCHANGED <<readers, winner, commits, evicted, discarded>>
    /\ UNCHANGED <<queryVars, bindVars, joinVars, valuesVars, modVars, setVars, updateVars, stageVars, describeVars, nestVars, aggVars, treeVars, xmlVars>>

\* the futures waiting for the key are resolved when its entry is installed
Resolve(rs, c) ==
    [i \in DOMAIN rs |->
        IF rs[i].status = "pending" /\ rs[i].key \in DOMAIN c.committed
        THEN [rs[i] EXCEPT !.status = "resolved", !.value = c.committed[rs[i].key]]
        ELSE rs[i]]

Commit(bgp, w) ==
    /\ Len(commits) < MaxCommits
    /\ commits' = Append(commits, <<Key(bgp), w>>)
    /\ cache' = commit(cache, bgp, w)
    /\ readers' = Resolve(readers, cache')
    /\ winner' = IF Key(bgp) \in DOMAIN winner THEN winner
                 ELSE (Key(bgp) :> [writer |-> w, content |-> sent[<<Key(bgp), w>>]]) @@ winner
    /\ called' = called \cup {Key(bgp)}
    /\ UNCHANGED <<sent, nUpdates, evicted, discarded>>
    /\ UNCHANGED <<queryVars, bindVars, joinVars, valuesVars, modVars, setVars, updateVars, stageVars, describeVars, nestVars, aggVars, treeVars, xmlVars>>

AtCall(k) ==
    IF k \in DOMAIN winner THEN "committed"
    ELSE IF k \in called THEN "staged" ELSE "untouched"

Get(bgp) ==
    /\ Len(readers) < MaxReaders
    /\ readers' = Append(readers, [atCall |-> AtCall(Key(bgp))] @@ get(cache, bgp))
    /\ UNCHANGED <<cache, sent, winner, called, nUpdates, commits, evicted, discarded>>
    /\ UNCHANGED <<queryVars, bindVars, joinVars, valuesVars, modVars, setVars, updateVars, stageVars, describeVars, nestVars, aggVars, treeVars, xmlVars>>

NextCache ==
    \/ \E b \in WriteBGPs, w \in Writers : Update(b, w)
    \/ \E b \in WriteBGPs, w \in Writers : Commit(b, w)
    \/ \E b \in WriteBGPs : Get(b)

\* the mappings staged for the key k, over all writers
StagedMappings(c, k) == UNION {Range(Buffer(c, k, w)) : w \in Writers}

\* the LRU policy evicts the key of bgp, or delete(bgp) is called; the
\* histories of the key start again
Evict(bgp) ==
    /\ Len(evicted) < MaxEvicts
    /\ touched(cache, bgp)
    /\ evicted' = Append(evicted, Key(bgp))
    /\ discarded' = discarded \cup StagedMappings(cache, Key(bgp))
    /\ cache' = evict(cache, bgp)
    /\ readers' = Fail(readers, cache')
    /\ sent' = [x \in DOMAIN sent |-> IF x[1] = Key(bgp) THEN <<>> ELSE sent[x]]
    /\ winner' = Restrict(winner, DOMAIN winner \ {Key(bgp)})
    /\ called' = called \ {Key(bgp)}
    /\ UNCHANGED <<nUpdates, commits>>
    /\ UNCHANGED <<queryVars, bindVars, joinVars, valuesVars, modVars, setVars, updateVars, stageVars, describeVars, nestVars, aggVars, treeVars, xmlVars>>

\* the BGP whose key is evicted
EvictBGP == [patterns |-> <<1>>, graphIRI |-> "gA"]

NextEvict ==
    \/ \E w \in Writers : Update(EvictBGP, w)
    \/ \E w \in Writers : Commit(EvictBGP, w)
    \/ Get(EvictBGP)
    \/ Evict(EvictBGP)

(***************************************************************************)
(* Query plans (plan-builder.ts) over a BGP stage (bgp-stage-builder.ts)   *)
(***************************************************************************)
\* the BGP { ?s ?p ?o } on the default graph, and its solutions in the graph's order
QueryBGP == [patterns |-> <<1>>, graphIRI |-> "gA"]

Solutions == [i \in 1..GraphSize |-> i]

\* SELECT ?s ?p ?o WHERE { ?s ?p ?o } or WHERE { { ?s ?p ?o } UNION { ?s ?p ?o } },
\* with the keys 'limit' and 'offset' present or not
Queries ==
    [shape : {"bgp", "union"},
     hasLimit : BOOLEAN, limit : 0..MaxLimit,
     hasOffset : BOOLEAN, offset : 0..MaxOffset]

WellFormed(q) == (~q.hasLimit => q.limit = 0) /\ (~q.hasOffset => q.offset = 0)

NoQuery == [shape |-> "none", hasLimit |-> FALSE, limit |-> 0, hasOffset |-> FALSE, offset |-> 0]

\* new LRUBGPCache(500, 1200 * 60 * 60): the arguments of the default cache
DefaultMaxSize ==
    500

DefaultMaxAge == 1200 * 60 * 60

\* _currentCache = null
NullCache == [kind |-> "null", maxSize |-> 0, maxAge |-> 0]

\* the cache useCache() builds when it is given no argument
DefaultCache == [kind |-> "default", maxSize |-> DefaultMaxSize, maxAge |-> DefaultMaxAge]

\* caches a caller builds itself and hands to useCache(customCache)
CustomCaches ==
    {[kind |-> "custom", maxSize |-> n, maxAge |-> n] : n \in {100, 200}}

Undefined == [kind |-> "undefined", maxSize |-> 0, maxAge |-> 0]

\* the argument of useCache: absent, or a cache of the caller
CacheArgs == {Undefined} \cup CustomCaches

NoContext == [cache |-> FALSE, instance |-> NullCache, hasLimitOffset |-> FALSE]

InitQueryIdle ==
    /\ cacheOn = FALSE
    /\ currentCache = NullCache
    /\ qpc = "idle"
    /\ query = NoQuery
    /\ ctx = NoContext
    /\ branches = <<>>
    /\ produced = 0
    /\ results = <<>>

\* (a faulty variant of HasLimitOffset: only LIMIT is looked at)
HasLimitOnly(q) == q.hasLimit

\* (a faulty variant of HasLimitOffset: the flag is always set)
HasLimitOffsetAlways(q) == TRUE

\* 'limit' in query || 'offset' in query
HasLimitOffset(q) == q.hasLimit \/ q.hasOffset

\* ExecutionContext.cachingEnabled(): a cache is set and the query has no LIMIT/OFFSET
cachingEnabled(c) == c.cache /\ ~c.hasLimitOffset

\* useCache(customCache): the default cache when no argument is given, else the argument
UseCache(customCache) ==
    /\ qpc = "idle"
    /\ cacheOn' = TRUE
    /\ currentCache' = IF customCache = Undefined THEN DefaultCache ELSE customCache
    /\ cache' = EmptyCache
    /\ UNCHANGED <<readers, sent, winner, called, nUpdates, commits, evicted, discarded>>
    /\ UNCHANGED <<qpc, query, ctx, branches, produced, results>>
    /\ UNCHANGED <<bindVars, joinVars, valuesVars, modVars, setVars, updateVars, stageVars, describeVars, nestVars, aggVars, treeVars, xmlVars>>

\* disableCache(): _currentCache = null
DisableCache ==
    /\ qpc = "idle"
    /\ cacheOn' = FALSE
    /\ currentCache' = NullCache
    /\ UNCHANGED cacheVars
    /\ UNCHANGED <<qpc, query, ctx, branches, produced, results>>
    /\ UNCHANGED <<bindVars, joinVars, valuesVars, modVars, setVars, updateVars, stageVars, describeVars, nestVars, aggVars, treeVars, xmlVars>>

NewBranch == [pc |-> "idle", mode |-> "none", pos |-> 0, src |-> <<>>]

\* build(query): a fresh context with the current cache, the LIMIT/OFFSET flag, the plan
Build(q) ==
    /\ qpc = "idle"
    /\ WellFormed(q)
    /\ query' = q
    /\ ctx' = [cache |-> cacheOn, instance |-> currentCache,
               hasLimitOffset |-> HasLimitOffset(q)]
    /\ branches' = [i \in 1..(IF q.shape = "union" THEN 2 ELSE 1) |-> NewBranch]
    /\ produced' = 0
    /\ results' = <<>>
    /\ qpc' = IF q.hasLimit /\ q.limit = 0 THEN "done" ELSE "running"
    /\ UNCHANGED <<cacheVars, cacheOn, currentCache>>
    /\ UNCHANGED <<bindVars, joinVars, valuesVars, modVars, setVars, updateVars, stageVars, describeVars, nestVars, aggVars, treeVars, xmlVars>>

WriterOf(i) == IF i = 1 THEN "W1" ELSE "W2"

\* cacheEvalBGP: nothing usable in the cache => evaluate and fill the cache ("write");
\* the whole BGP is in the cache => read it ("read")
CacheMode(c, bgp) == IF findSubset(c, bgp)[1] = <<>> THEN "write" ELSE "read"

\* bgpEvaluation: the branch receives its input mapping and picks its iterator
BranchStart(i) ==
    /\ qpc = "running"
    /\ i \in DOMAIN branches
    /\ branches[i].pc = "idle"
    /\ branches' =
        [branches EXCEPT ![i] =
            IF ~cachingEnabled(ctx)
            THEN [pc |-> "running", mode |-> "direct", pos |-> 0, src |-> Solutions]
            ELSE IF CacheMode(cache, QueryBGP) = "write"
                 THEN [pc |-> "running", mode |-> "write", pos |-> 0, src |-> Solutions]
                 ELSE [pc |-> "running", mode |-> "read", pos |-> 0,
                       src |-> get(cache, QueryBGP).value]]
    /\ UNCHANGED <<cacheVars, cacheOn, currentCache, qpc, query, ctx, produced, results>>
    /\ UNCHANGED <<bindVars, joinVars, valuesVars, modVars, setVars, updateVars, stageVars, describeVars, nestVars, aggVars, treeVars, xmlVars>>

\* OFFSET then LIMIT on what the WHERE clause produces
Deliver(rs, n, item) == IF query.hasOffset /\ n <= query.offset THEN rs ELSE Append(rs, item)

\* the branch produces its next mapping; a writer streams it into update()
BranchEmit(i) ==
    /\ qpc = "running"
    /\ i \in DOMAIN branches
    /\ branches[i].pc = "running"
    /\ branches[i].pos < Len(branches[i].src)
    /\ LET item == branches[i].src[branches[i].pos + 1]
       IN /\ cache' = IF branches[i].mode = "write"
                       THEN update(cache, QueryBGP, item, WriterOf(i))
                       ELSE cache
          /\ results' = Deliver(results, produced + 1, item)
    /\ produced' = produced + 1
    /\ branches' = [branches EXCEPT ![i].pos = @ + 1]
    /\ qpc' = IF query.hasLimit /\ Len(results') >= query.limit THEN "done" ELSE "running"
    /\ UNCHANGED <<readers, sent, winner, called, nUpdates, commits, evicted, discarded, cacheOn, currentCache, query, ctx>>
    /\ UNCHANGED <<bindVars, joinVars, valuesVars, modVars, setVars, updateVars, stageVars, describeVars, nestVars, aggVars, treeVars, xmlVars>>

\* the branch's iterator ends; a writer commits
BranchComplete(i) ==
    /\ qpc = "running"
    /\ i \in DOMAIN branches
    /\ branches[i].pc = "running"
    /\ branches[i].pos = Len(branches[i].src)
    /\ cache' = IF branches[i].mode = "write" THEN commit(cache, QueryBGP, WriterOf(i)) ELSE cache
    /\ branches' = [branches EXCEPT ![i].pc = "done"]
    /\ UNCHANGED <<readers, sent, winner, called, nUpdates, commits, evicted, discarded>>
    /\ UNCHANGED <<cacheOn, currentCache, qpc, query, ctx, produced, results>>
    /\ UNCHANGED <<bindVars, joinVars, valuesVars, modVars, setVars, updateVars, stageVars, describeVars, nestVars, aggVars, treeVars, xmlVars>>

\* every source of the merge has completed: the plan completes
QueryComplete ==
    /\ qpc = "running"
    /\ \A i \in DOMAIN branches : branches[i].pc = "done"
    /\ qpc' = "done"
    /\ UNCHANGED <<cacheVars, cacheOn, currentCache, query, ctx, branches, produced, results>>
    /\ UNCHANGED <<bindVars, joinVars, valuesVars, modVars, setVars, updateVars, stageVars, describeVars, nestVars, aggVars, treeVars, xmlVars>>

NextQuery ==
    \/ \E c \in CacheArgs : UseCache(c)
    \/ DisableCache
    \/ \E q \in Queries : Build(q)
    \/ \E i \in 1..2 : BranchStart(i)
    \/ \E i \in 1..2 : BranchEmit(i)
    \/ \E i \in 1..2 : BranchComplete(i)
    \/ QueryComplete

\* the writers alone: every cache state there is, for the claims about findSubset
----------------------------------------------------------------------------
(* The expression compiler and the BIND operator.                           *)
(*                                                                          *)
(* An expression is a tree of nodes {type, name, args, term}: a variable,   *)
(* an RDF term, an operation of the built-in operator table, an aggregate,  *)
(* or a function call by IRI.  bind() compiles its expression once, when    *)
(* the plan is built, and then evaluates it on every mapping of its source. *)

TargetVar == "target"

NoTerm == [tt |-> "none", v |-> 0]
Lit(n) == [tt |-> "Literal", v |-> n]
Unbound == [tt |-> "Unbound", v |-> 0]

V(n) == [type |-> "variable", name |-> n, args |-> <<>>, term |-> NoTerm]
K(n) == [type |-> "term", name |-> "", args |-> <<>>, term |-> Lit(n)]
Op(o, a) == [type |-> "operation", name |-> o, args |-> a, term |-> NoTerm]
Agg(a, n) == [type |-> "aggregate", name |-> a, args |-> <<V(n)>>, term |-> NoTerm]
Call(f, a) == [type |-> "functionCall", name |-> f, args |-> a, term |-> NoTerm]
NoExpr == [type |-> "none", name |-> "", args |-> <<>>, term |-> NoTerm]

\* the operator tables of the engine and the functions the user registers
SPARQL_OPERATIONS == {"+", "&&", "||"}
SPARQL_AGGREGATES == {"count"}
CUSTOM_AGGREGATES == {"agg#accuracy"}
customFunctions == {"test#REVERSE", "test#ERROR", "test#SPLIT", "test#STREAM"}
UnknownIRI == "test#UNKNOWN"
FunctionIRIs == customFunctions \cup CUSTOM_AGGREGATES \cup {UnknownIRI}

\* what the evaluation of a compiled expression produces: a term, null, an
\* array or lazy iterable of terms and nulls (fails: the iterable throws
\* after its last item), or an exception
Term(t) == [k |-> "term", term |-> t, items |-> <<>>, fails |-> FALSE]
Null == [k |-> "null", term |-> NoTerm, items |-> <<>>, fails |-> FALSE]
Thrown == [k |-> "throw", term |-> NoTerm, items |-> <<>>, fails |-> FALSE]
Items(s, f) == [k |-> "list", term |-> NoTerm, items |-> s, fails |-> f]

\* a solution mapping: its variables and its property bag
EmptyVars == [n \in {} |-> NoTerm]
Mappings ==
    { [vars |-> f, hasAggregate |-> a, rows |-> IF a THEN <<Lit(1), Lit(1)>> ELSE <<>>] :
        f \in {EmptyVars, [n \in {"x"} |-> Lit(1)]}, a \in BOOLEAN }

RECURSIVE Compiles(_)
\* _compileExpression at construction: TRUE when it returns a closure, FALSE
\* when it throws.  The arguments of an operation are compiled with it; the
\* arguments of a function call are not.
Compiles(e) ==
    CASE e.type \in {"variable", "term"} -> TRUE
      [] e.type = "operation" ->
            /\ \A i \in DOMAIN e.args : Compiles(e.args[i])
            /\ e.name \in SPARQL_OPERATIONS
      [] e.type = "aggregate" -> e.name \in SPARQL_AGGREGATES
      [] e.type = "functionCall" ->
            e.name \in CUSTOM_AGGREGATES \/ e.name \in customFunctions
      [] OTHER -> FALSE

\* the built-in addition: defined on two numeric literals, throws otherwise
Plus(a) ==
    IF \A i \in DOMAIN a : a[i].k = "term" /\ a[i].term.tt = "Literal"
    THEN Term(Lit(a[1].term.v + a[2].term.v))
    ELSE Thrown

\* a boolean literal: "false" is the literal 0, "true" the literal 1
Bool(b) == Lit(IF b THEN 1 ELSE 0)

\* the value of a literal taken as a boolean
asBoolean(t) == t.v # 0

\* an evaluated operand that is a literal
IsLiteral(r) == r.k = "term" /\ r.term.tt = "Literal"

\* the built-in conjunction, a function of its two evaluated operands: the
\* second one is looked at only when the first is true
And(a) ==
    CASE ~IsLiteral(a[1]) -> Thrown
      [] IsLiteral(a[1]) /\ ~asBoolean(a[1].term) -> Term(Bool(FALSE))
      [] IsLiteral(a[1]) /\ asBoolean(a[1].term) ->
            IF IsLiteral(a[2]) THEN Term(Bool(asBoolean(a[2].term))) ELSE Thrown

\* the built-in disjunction: the second operand is looked at only when the
\* first is false
Or(a) ==
    CASE ~IsLiteral(a[1]) -> Thrown
      [] IsLiteral(a[1]) /\ asBoolean(a[1].term) -> Term(Bool(TRUE))
      [] IsLiteral(a[1]) /\ ~asBoolean(a[1].term) ->
            IF IsLiteral(a[2]) THEN Term(Bool(asBoolean(a[2].term))) ELSE Thrown

\* SPARQL_OPERATIONS[operator] applied to the evaluated arguments
applyOperation(o, a) ==
    CASE o = "+" -> Plus(a)
      [] o = "&&" -> And(a)
      [] o = "||" -> Or(a)
      [] OTHER -> Thrown

\* the functions of the user, applied to evaluated arguments
applyCustom(f, a) ==
    CASE f = "test#REVERSE" ->
            IF a[1].k = "term" THEN Term(Lit(0 - a[1].term.v)) ELSE Thrown
      [] f = "test#ERROR" -> Thrown
      [] f = "test#SPLIT" ->
            IF a[1].k \in {"term", "null"}
            THEN Items(<<[k |-> a[1].k, term |-> a[1].term],
                         [k |-> "null", term |-> NoTerm]>>, FALSE)
            ELSE Thrown
      [] f = "test#STREAM" ->
            IF a[1].k \in {"term", "null"}
            THEN Items(<<[k |-> a[1].k, term |-> a[1].term]>>, TRUE)
            ELSE Thrown
      [] OTHER -> Thrown

RECURSIVE evaluate(_, _)
\* the compiled closure of e applied to the mapping mu
evaluate(e, mu) ==
    CASE e.type = "variable" ->
            IF e.name \in DOMAIN mu.vars THEN Term(mu.vars[e.name]) ELSE Null
      [] e.type = "term" -> Term(e.term)
      [] e.type = "operation" ->
            LET a == [i \in DOMAIN e.args |-> evaluate(e.args[i], mu)]
            IN  IF \E i \in DOMAIN a : a[i].k = "throw"
                THEN Thrown
                ELSE applyOperation(e.name, a)
      [] e.type = "aggregate" ->
            IF mu.hasAggregate THEN Term(Lit(Len(mu.rows))) ELSE Thrown
      [] e.type = "functionCall" /\ e.name \in CUSTOM_AGGREGATES ->
            IF mu.hasAggregate THEN Term(Lit(Len(mu.rows))) ELSE Thrown
      [] e.type = "functionCall" /\ e.name \notin CUSTOM_AGGREGATES ->
            IF \E i \in DOMAIN e.args : ~Compiles(e.args[i])
            THEN Null
            ELSE LET a == [i \in DOMAIN e.args |-> evaluate(e.args[i], mu)]
                 IN  IF \E i \in DOMAIN a : a[i].k = "throw"
                     THEN Null
                     ELSE LET r == applyCustom(e.name, a)
                          IN  IF r.k = "throw" THEN Null ELSE r
      [] OTHER -> Thrown

\* the expressions a BIND is called with
Atoms == {V("x"), K(1)}
Exprs0 == Atoms \cup {Agg("count", "x")}
Exprs1 ==
    Exprs0 \cup {Call(f, <<a>>) : f \in FunctionIRIs, a \in Exprs0}
           \cup {Op("+", <<a, b>>) : a \in Exprs0, b \in Exprs0}
\* A && B and A || B, with A a boolean constant and B an expression that
\* evaluates to a term, to null, or throws
LogicExprs ==
    {Op(o, <<K(a), b>>) : o \in {"&&", "||"}, a \in {0, 1},
                          b \in Exprs0 \cup {Call("test#ERROR", <<K(1)>>)}}

Exprs ==
    Exprs1 \cup {Call(f, <<a>>) : f \in FunctionIRIs, a \in Exprs1}
           \cup {Op("+", <<a, b>>) : a \in Exprs1, b \in Atoms}
           \cup LogicExprs

InputSeqs == UNION { [1..n -> Mappings] : n \in 1..MaxInputs }

InitBindIdle ==
    /\ bexpr = NoExpr
    /\ binput = <<>>
    /\ bpc = "idle"
    /\ bpos = 0
    /\ bout = <<>>
    /\ berr = FALSE

\* mu.clone() followed by mu.set(variable, t)
setTarget(mu, t) ==
    [mu EXCEPT !.vars = [n \in DOMAIN mu.vars \cup {TargetVar} |->
                            IF n = TargetVar THEN t ELSE mu.vars[n]]]

\* the mappings bind() emits for the input mapping mu, given the outcome r
\* of the evaluation
bindOutputs(mu, r) ==
    CASE r.k = "throw" -> <<>>
      [] r.k = "list" ->
            [j \in DOMAIN r.items |->
                setTarget(mu, IF r.items[j].k = "null" THEN Unbound ELSE r.items[j].term)]
      [] r.k = "null" -> <<setTarget(mu, Unbound)>>
      [] OTHER -> <<setTarget(mu, r.term)>>

\* bind(source, variable, expression, customFunctions): the expression is
\* compiled when the stage is created
Bind(e, input) ==
    /\ bpc = "idle"
    /\ bexpr' = e
    /\ binput' = input
    /\ bpc' = IF Compiles(e) THEN "running" ELSE "failed"
    /\ UNCHANGED <<bpos, bout, berr>>
    /\ UNCHANGED <<cacheVars, queryVars, joinVars, valuesVars, modVars, setVars, updateVars, stageVars, describeVars, nestVars, aggVars, treeVars, xmlVars>>

\* the callback of mergeMap for the next mapping of the source
BindNext ==
    /\ bpc = "running"
    /\ bpos < Len(binput)
    /\ LET mu == binput[bpos + 1]
           r == evaluate(bexpr, mu)
           out == bindOutputs(mu, r)
       IN  /\ bout' = bout \o [j \in DOMAIN out |-> [src |-> bpos + 1, mu |-> out[j]]]
           /\ berr' = (r.k = "list" /\ r.fails)
           /\ bpc' = IF r.k = "list" /\ r.fails THEN "errored" ELSE "running"
    /\ bpos' = bpos + 1
    /\ UNCHANGED <<bexpr, binput>>
    /\ UNCHANGED <<cacheVars, queryVars, joinVars, valuesVars, modVars, setVars, updateVars, stageVars, describeVars, nestVars, aggVars, treeVars, xmlVars>>

\* the source completes
BindComplete ==
    /\ bpc = "running"
    /\ bpos = Len(binput)
    /\ bpc' = "done"
    /\ UNCHANGED <<bexpr, binput, bpos, bout, berr>>
    /\ UNCHANGED <<cacheVars, queryVars, joinVars, valuesVars, modVars, setVars, updateVars, stageVars, describeVars, nestVars, aggVars, treeVars, xmlVars>>

NextBind ==
    \/ bpc = "idle" /\ \E e \in Exprs, input \in InputSeqs : Bind(e, input)
    \/ BindNext
    \/ BindComplete

----------------------------------------------------------------------------
(* The two join strategies: bgpEvaluation joins an input mapping with the   *)
(* mappings graph.evalBGP returns for the bounded BGP; indexJoin joins it   *)
(* with the triples graph.find returns for the bounded triple pattern.      *)
(* The graph is the backend of the caller: what it returns is an input.     *)

IRI(s) == [termType |-> "NamedNode", value |-> s]
BNode(s) == [termType |-> "BlankNode", value |-> s]
Var(s) == [termType |-> "Variable", value |-> s]
isVariable(t) == t.termType = "Variable"
isBlankNode(t) == t.termType = "BlankNode"

Positions == <<"subject", "predicate", "object">>

NoTriple == [subject |-> IRI(""), predicate |-> IRI(""), object |-> IRI("")]
EmptyBindings == [n \in {} |-> IRI("")]

JoinVars == {"s", "o"}
JoinTerms == {IRI("a"), IRI("b")}
\* the mappings of the source and of evalBGP
JoinBindings == UNION { [D -> JoinTerms] : D \in SUBSET JoinVars }
\* the triple patterns to join with
JoinPatterns ==
    [subject : {Var("s"), IRI("a")},
     predicate : {Var("p"), IRI("p")},
     object : {Var("o"), Var("s"), IRI("b")}]
\* the triples graph.find may return
FoundTriples ==
    [subject : JoinTerms \cup {BNode("n1")},
     predicate : {IRI("p")},
     object : JoinTerms \cup {BNode("n1")}]

\* Bindings.bound: the variables of the pattern that mu binds are replaced
\* by their terms
bound(mu, triple) ==
    [k \in DOMAIN triple |->
        IF isVariable(triple[k]) /\ triple[k].value \in DOMAIN mu
        THEN mu[triple[k].value]
        ELSE triple[k]]

\* union with the mappings of the receiver kept where both bind a variable
unionKeepsOwn(this, other) ==
    [n \in DOMAIN this \cup DOMAIN other |->
        IF n \in DOMAIN this THEN this[n] ELSE other[n]]

\* Bindings.union: a clone of the receiver in which every mapping of other
\* is set
union(this, other) ==
    [n \in DOMAIN this \cup DOMAIN other |->
        IF n \in DOMAIN other THEN other[n] ELSE this[n]]

\* pickBy then mapKeys of indexJoin: the terms of item at the positions
\* where the bounded pattern holds a variable, keyed by the name of that
\* variable; a later position replaces an earlier one
pickTemp(item, boundedPattern) ==
    LET picked == {i \in 1..3 : isVariable(boundedPattern[Positions[i]])}
        names == {boundedPattern[Positions[i]].value : i \in picked}
        last(n) == CHOOSE i \in picked :
                      /\ boundedPattern[Positions[i]].value = n
                      /\ \A j \in picked :
                            boundedPattern[Positions[j]].value = n => j <= i
    IN  [n \in names |-> item[Positions[last(n)]]]

\* BindingBase.fromMapping throws on a variable or a blank node
fromMappingThrows(values) ==
    \E n \in DOMAIN values : isVariable(values[n]) \/ isBlankNode(values[n])

InitJoinIdle ==
    /\ jkind = "none"
    /\ jin = EmptyBindings
    /\ jpattern = NoTriple
    /\ jitems = <<>>
    /\ jout = <<>>
    /\ jpc = "idle"

\* the join stage receives the mapping m of its source
Join(kind, m, pattern) ==
    /\ jpc = "idle"
    /\ jkind' = kind
    /\ jin' = m
    /\ jpattern' = pattern
    /\ jpc' = "running"
    /\ UNCHANGED <<jitems, jout>>
    /\ UNCHANGED <<cacheVars, queryVars, bindVars, valuesVars, modVars, setVars, updateVars, stageVars, describeVars, nestVars, aggVars, treeVars, xmlVars>>

\* indexJoin: graph.find delivers the triple item
IndexJoinItem(item) ==
    /\ jpc = "running"
    /\ jkind = "indexJoin"
    /\ Len(jitems) < MaxItems
    /\ jitems' = Append(jitems, [triple |-> item, bindings |-> EmptyBindings])
    /\ LET temp == pickTemp(item, bound(jin, jpattern))
       IN  IF fromMappingThrows(temp)
           THEN /\ jpc' = "errored"
                /\ jout' = jout
           ELSE /\ jpc' = "running"
                /\ jout' = Append(jout, union(temp, jin))
    /\ UNCHANGED <<jkind, jin, jpattern>>
    /\ UNCHANGED <<cacheVars, queryVars, bindVars, valuesVars, modVars, setVars, updateVars, stageVars, describeVars, nestVars, aggVars, treeVars, xmlVars>>

\* bgpEvaluation: graph.evalBGP delivers the mapping item
BgpEvaluationItem(item) ==
    /\ jpc = "running"
    /\ jkind = "bgpEvaluation"
    /\ Len(jitems) < MaxItems
    /\ jitems' = Append(jitems, [triple |-> NoTriple, bindings |-> item])
    /\ jout' = Append(jout, union(item, jin))
    /\ UNCHANGED <<jkind, jin, jpattern, jpc>>
    /\ UNCHANGED <<cacheVars, queryVars, bindVars, valuesVars, modVars, setVars, updateVars, stageVars, describeVars, nestVars, aggVars, treeVars, xmlVars>>

\* the backend has no more results
JoinComplete ==
    /\ jpc = "running"
    /\ jpc' = "done"
    /\ UNCHANGED <<jkind, jin, jpattern, jitems, jout>>
    /\ UNCHANGED <<cacheVars, queryVars, bindVars, valuesVars, modVars, setVars, updateVars, stageVars, describeVars, nestVars, aggVars, treeVars, xmlVars>>

NextJoin ==
    \/ \E kind \in {"indexJoin", "bgpEvaluation"}, m \in JoinBindings,
          pattern \in JoinPatterns : Join(kind, m, pattern)
    \/ \E item \in FoundTriples : IndexJoinItem(item)
    \/ \E item \in JoinBindings : BgpEvaluationItem(item)
    \/ JoinComplete

----------------------------------------------------------------------------
(* VALUES clauses (PlanBuilder._buildWhere / _buildValues): the WHERE       *)
(* clause { ?s <p> ?o } with one or two VALUES clauses, over a fixed graph. *)

\* the graph of the query, in the order its backend enumerates it
VGraph ==
    << [subject |-> IRI("a"), predicate |-> IRI("p"), object |-> IRI("c")],
       [subject |-> IRI("a"), predicate |-> IRI("p"), object |-> IRI("d")],
       [subject |-> IRI("b"), predicate |-> IRI("p"), object |-> IRI("c")] >>

\* the group of the WHERE clause that is not a VALUES clause
VBody == [subject |-> Var("s"), predicate |-> IRI("p"), object |-> Var("o")]

\* the VALUES clauses a query may hold: one on ?s, one on ?o
RowSeqs(T) == UNION { [1..n -> T] : n \in 1..MaxRows }
ClausesOnS == { [var |-> "s", rows |-> r] : r \in RowSeqs({IRI("a"), IRI("b")}) }
ClausesOnO == { [var |-> "o", rows |-> r] : r \in RowSeqs({IRI("c"), IRI("d")}) }
ValuesInputs ==
    { <<c>> : c \in ClausesOnS \cup ClausesOnO }
        \cup { <<c1, c2>> : c1 \in ClausesOnS, c2 \in ClausesOnO }

\* BindingBase.fromValues of row j of a clause
fromValues(clause, j) == [n \in {clause.var} |-> clause.rows[j]]

\* a triple matches a bounded pattern
Matches(t, bp) == \A k \in DOMAIN bp : isVariable(bp[k]) \/ bp[k] = t[k]

\* graph.evalBGP on a one-pattern BGP: the solutions in the graph's order
evalPattern(bp) ==
    LET found == SelectSeq(VGraph, LAMBDA t : Matches(t, bp))
    IN  [i \in DOMAIN found |-> pickTemp(found[i], bp)]

\* deepApplyBindings on the body, then its evaluation
evalBodyWith(bindings) == evalPattern(bound(bindings, VBody))

\* extendByBindings: each solution of the branch is joined with the row
extendByBindings(item, bindings) == union(bindings, item)

\* (a faulty variant of valuesBranches: only the first row of each clause gets a branch)
valuesBranchesFirstRow(clauses) ==
    [id \in { <<i, 1>> : i \in DOMAIN clauses } |->
        [bindings |-> fromValues(clauses[id[1]], id[2]),
         src |-> evalBodyWith(fromValues(clauses[id[1]], id[2])),
         pos |-> 0]]

\* _buildValues: for each VALUES clause, one branch per row, evaluating the
\* other groups with the row applied; the branches of all clauses are merged
valuesBranches(clauses) ==
    [id \in { x \in (DOMAIN clauses) \X (1..MaxRows) : x[2] \in DOMAIN clauses[x[1]].rows } |->
        [bindings |-> fromValues(clauses[id[1]], id[2]),
         src |-> evalBodyWith(fromValues(clauses[id[1]], id[2])),
         pos |-> 0]]

InitValuesIdle ==
    /\ vclauses = <<>>
    /\ vbranches = <<>>
    /\ vout = EmptyBag
    /\ vpc = "idle"

\* _buildWhere on a WHERE clause with VALUES clauses
BuildValues(clauses) ==
    /\ vpc = "idle"
    /\ vclauses' = clauses
    /\ vbranches' = valuesBranches(clauses)
    /\ vpc' = "running"
    /\ UNCHANGED vout
    /\ UNCHANGED <<cacheVars, queryVars, bindVars, joinVars, modVars, setVars, updateVars, stageVars, describeVars, nestVars, aggVars, treeVars, xmlVars>>

\* merge: some branch delivers its next solution
ValuesEmit(id) ==
    /\ vpc = "running"
    /\ id \in DOMAIN vbranches
    /\ vbranches[id].pos < Len(vbranches[id].src)
    /\ LET b == vbranches[id]
       IN  vout' = vout (+) SetToBag({extendByBindings(b.src[b.pos + 1], b.bindings)})
    /\ vbranches' = [vbranches EXCEPT ![id].pos = @ + 1]
    /\ UNCHANGED <<vclauses, vpc>>
    /\ UNCHANGED <<cacheVars, queryVars, bindVars, joinVars, modVars, setVars, updateVars, stageVars, describeVars, nestVars, aggVars, treeVars, xmlVars>>

\* merge completes when every branch has
ValuesComplete ==
    /\ vpc = "running"
    /\ \A id \in DOMAIN vbranches : vbranches[id].pos = Len(vbranches[id].src)
    /\ vpc' = "done"
    /\ UNCHANGED <<vclauses, vbranches, vout>>
    /\ UNCHANGED <<cacheVars, queryVars, bindVars, joinVars, modVars, setVars, updateVars, stageVars, describeVars, nestVars, aggVars, treeVars, xmlVars>>

NextValues ==
    \/ vpc = "idle" /\ \E clauses \in ValuesInputs : BuildValues(clauses)
    \/ \E id \in (1..2) \X (1..MaxRows) : ValuesEmit(id)
    \/ ValuesComplete

----------------------------------------------------------------------------
(* Solution modifiers (PlanBuilder._buildQueryPlan): the stages wrapped     *)
(* around the WHERE clause of a SELECT query, applied to its solutions.     *)

ModVars == {"x", "y"}
ModValues == 1..2
\* the solutions of the WHERE clause: mappings of ?x and ?y
ModMappings == [ModVars -> ModValues]
ModInputs == UNION { [1..n -> ModMappings] : n \in 0..MaxSolutions }

\* the parsed query: ORDER BY ?y or none, SELECT ?x or SELECT *, DISTINCT,
\* OFFSET, LIMIT
ModQueries ==
    [order : BOOLEAN, selectX : BOOLEAN, distinct : BOOLEAN,
     hasOffset : BOOLEAN, offset : 0..MaxOffset,
     hasLimit : BOOLEAN, limit : 0..MaxLimit]

NoModQuery ==
    [order |-> FALSE, selectX |-> FALSE, distinct |-> FALSE,
     hasOffset |-> FALSE, offset |-> 0, hasLimit |-> FALSE, limit |-> 0]

RECURSIVE insertSorted(_, _)
\* m is put after the elements whose key is not greater than its own
insertSorted(s, m) ==
    IF s = <<>> THEN <<m>>
    ELSE IF s[Len(s)]["y"] <= m["y"] THEN Append(s, m)
    ELSE Append(insertSorted(SubSeq(s, 1, Len(s) - 1), m), s[Len(s)])

RECURSIVE orderBy(_)
\* the ORDER BY stage: a stable sort on ?y, ascending
orderBy(s) ==
    IF s = <<>> THEN <<>>
    ELSE insertSorted(orderBy(SubSeq(s, 1, Len(s) - 1)), s[Len(s)])

\* the SELECT modifier: projection on ?x, or every variable for SELECT *
select(s, q) ==
    IF q.selectX THEN [i \in DOMAIN s |-> [n \in {"x"} |-> s[i][n]]] ELSE s

RECURSIVE distinct(_)
\* the DISTINCT stage: a mapping passes when no equal mapping passed before
distinct(s) ==
    IF s = <<>> THEN <<>>
    ELSE LET d == distinct(SubSeq(s, 1, Len(s) - 1))
         IN  IF \E i \in DOMAIN d : d[i] = s[Len(s)] THEN d ELSE Append(d, s[Len(s)])

RECURSIVE skip(_, _)
\* engine.skip: the first n items are dropped
skip(s, n) == IF n = 0 \/ s = <<>> THEN s ELSE skip(Tail(s), n - 1)

RECURSIVE limit(_, _)
\* engine.limit: the first n items pass
limit(s, n) == IF n = 0 \/ s = <<>> THEN <<>> ELSE <<Head(s)>> \o limit(Tail(s), n - 1)

\* (a faulty variant of ModifierOrder: LIMIT is wrapped before OFFSET)
ModifierOrderLimitFirst == <<"order", "queryType", "distinct", "limit", "offset">>

\* the order in which _buildQueryPlan wraps the stages
ModifierOrder == <<"order", "queryType", "distinct", "offset", "limit">>

\* the stage named st of the query q applied to the sequence s
applyModifier(st, q, s) ==
    CASE st = "order" -> IF q.order THEN orderBy(s) ELSE s
      [] st = "queryType" -> select(s, q)
      [] st = "distinct" -> IF q.distinct THEN distinct(s) ELSE s
      [] st = "offset" -> IF q.hasOffset THEN skip(s, q.offset) ELSE s
      [] st = "limit" -> IF q.hasLimit THEN limit(s, q.limit) ELSE s
      [] OTHER -> s

InitModIdle ==
    /\ mquery = NoModQuery
    /\ minput = <<>>
    /\ mseq = <<>>
    /\ mstage = 0
    /\ mpc = "idle"

\* the WHERE clause of q has produced the solutions s
ModStart(q, s) ==
    /\ mpc = "idle"
    /\ WellFormed(q)
    /\ mquery' = q
    /\ minput' = s
    /\ mseq' = s
    /\ mstage' = 0
    /\ mpc' = "running"
    /\ UNCHANGED <<cacheVars, queryVars, bindVars, joinVars, valuesVars, setVars, updateVars, stageVars, describeVars, nestVars, aggVars, treeVars, xmlVars>>

\* the next stage of the plan consumes the output of the one before
ModStage ==
    /\ mpc = "running"
    /\ mstage < Len(ModifierOrder)
    /\ mseq' = applyModifier(ModifierOrder[mstage + 1], mquery, mseq)
    /\ mstage' = mstage + 1
    /\ UNCHANGED <<mquery, minput, mpc>>
    /\ UNCHANGED <<cacheVars, queryVars, bindVars, joinVars, valuesVars, setVars, updateVars, stageVars, describeVars, nestVars, aggVars, treeVars, xmlVars>>

\* the last stage has completed
ModComplete ==
    /\ mpc = "running"
    /\ mstage = Len(ModifierOrder)
    /\ mpc' = "done"
    /\ UNCHANGED <<mquery, minput, mseq, mstage>>
    /\ UNCHANGED <<cacheVars, queryVars, bindVars, joinVars, valuesVars, setVars, updateVars, stageVars, describeVars, nestVars, aggVars, treeVars, xmlVars>>

NextMod ==
    \/ mpc = "idle" /\ \E q \in ModQueries, s \in ModInputs : ModStart(q, s)
    \/ ModStage
    \/ ModComplete

----------------------------------------------------------------------------
(* Bindings as sets of mappings (bindings.ts): union, equals,               *)
(* intersection, difference, isSubset on two mappings.  An RDF term is an   *)
(* object: ref is its identity, termType and value its content; === and     *)
(* !== compare identities.                                                  *)

\* the term objects of the heap: the first two hold the same IRI
TermObjects ==
    { [ref |-> r, termType |-> "NamedNode", value |-> IF r <= 2 THEN "a" ELSE "b"] :
        r \in 1..MaxObjects }

SetVars == {"x", "y"}
SetMappings == UNION { [D -> TermObjects] : D \in SUBSET SetVars }

\* t1 === t2
sameObject(t1, t2) == t1.ref = t2.ref

\* (a faulty variant of unionCall: the mappings are set on the receiver itself)
unionCallInPlace(this, other) ==
    [result |-> union(this, other), this |-> union(this, other), other |-> other]

\* a call this.union(other): the result, and the two mappings after the
\* call; the mappings of other are set on a clone of the receiver
unionCall(this, other) ==
    [result |-> union(this, other), this |-> this, other |-> other]

\* this.equals(other)
equals(this, other) ==
    IF Cardinality(DOMAIN this) # Cardinality(DOMAIN other) THEN FALSE
    ELSE \A n \in DOMAIN other : n \in DOMAIN this /\ sameObject(this[n], other[n])

\* this.intersection(other)
intersection(this, other) ==
    [n \in {v \in DOMAIN this : v \in DOMAIN other /\ sameObject(other[v], this[v])} |-> this[n]]

\* (a faulty variant of difference: every variable other binds is left out)
differenceByDomain(this, other) ==
    [n \in {v \in DOMAIN this : v \notin DOMAIN other} |-> this[n]]

\* this.difference(other)
difference(this, other) ==
    [n \in {v \in DOMAIN this : v \notin DOMAIN other \/ ~sameObject(this[v], other[v])} |-> this[n]]

\* this.isSubset(other)
isSubset(this, other) ==
    \A v \in DOMAIN this : v \in DOMAIN other /\ sameObject(other[v], this[v])

SetOps == {"union", "equals", "intersection", "difference", "isSubset"}

NoResults ==
    [union |-> EmptyBindings, equals |-> FALSE, intersection |-> EmptyBindings,
     difference |-> EmptyBindings, isSubset |-> FALSE]

InitSetsIdle ==
    /\ sm1 = EmptyBindings
    /\ sm2 = EmptyBindings
    /\ sorig = <<EmptyBindings, EmptyBindings>>
    /\ sdone = {}
    /\ sres = NoResults
    /\ spc = "idle"

\* two mappings are built
NewMappings(m1, m2) ==
    /\ spc = "idle"
    /\ sm1' = m1
    /\ sm2' = m2
    /\ sorig' = <<m1, m2>>
    /\ spc' = "ready"
    /\ UNCHANGED <<sdone, sres>>
    /\ UNCHANGED <<cacheVars, queryVars, bindVars, joinVars, valuesVars, modVars, updateVars, stageVars, describeVars, nestVars, aggVars, treeVars, xmlVars>>

CallUnion ==
    /\ spc = "ready"
    /\ "union" \notin sdone
    /\ LET r == unionCall(sm1, sm2)
       IN  /\ sres' = [sres EXCEPT !.union = r.result]
           /\ sm1' = r.this
           /\ sm2' = r.other
    /\ sdone' = sdone \cup {"union"}
    /\ UNCHANGED <<sorig, spc>>
    /\ UNCHANGED <<cacheVars, queryVars, bindVars, joinVars, valuesVars, modVars, updateVars, stageVars, describeVars, nestVars, aggVars, treeVars, xmlVars>>

CallEquals ==
    /\ spc = "ready"
    /\ "equals" \notin sdone
    /\ sres' = [sres EXCEPT !.equals = equals(sm1, sm2)]
    /\ sdone' = sdone \cup {"equals"}
    /\ UNCHANGED <<sm1, sm2, sorig, spc>>
    /\ UNCHANGED <<cacheVars, queryVars, bindVars, joinVars, valuesVars, modVars, updateVars, stageVars, describeVars, nestVars, aggVars, treeVars, xmlVars>>

CallIntersection ==
    /\ spc = "ready"
    /\ "intersection" \notin sdone
    /\ sres' = [sres EXCEPT !.intersection = intersection(sm1, sm2)]
    /\ sdone' = sdone \cup {"intersection"}
    /\ UNCHANGED <<sm1, sm2, sorig, spc>>
    /\ UNCHANGED <<cacheVars, queryVars, bindVars, joinVars, valuesVars, modVars, updateVars, stageVars, describeVars, nestVars, aggVars, treeVars, xmlVars>>

CallDifference ==
    /\ spc = "ready"
    /\ "difference" \notin sdone
    /\ sres' = [sres EXCEPT !.difference = difference(sm1, sm2)]
    /\ sdone' = sdone \cup {"difference"}
    /\ UNCHANGED <<sm1, sm2, sorig, spc>>
    /\ UNCHANGED <<cacheVars, queryVars, bindVars, joinVars, valuesVars, modVars, updateVars, stageVars, describeVars, nestVars, aggVars, treeVars, xmlVars>>

CallIsSubset ==
    /\ spc = "ready"
    /\ "isSubset" \notin sdone
    /\ sres' = [sres EXCEPT !.isSubset = isSubset(sm1, sm2)]
    /\ sdone' = sdone \cup {"isSubset"}
    /\ UNCHANGED <<sm1, sm2, sorig, spc>>
    /\ UNCHANGED <<cacheVars, queryVars, bindVars, joinVars, valuesVars, modVars, updateVars, stageVars, describeVars, nestVars, aggVars, treeVars, xmlVars>>

NextSets ==
    \/ spc = "idle" /\ \E m1 \in SetMappings, m2 \in SetMappings : NewMappings(m1, m2)
    \/ CallUnion
    \/ CallEquals
    \/ CallIntersection
    \/ CallDifference
    \/ CallIsSubset

(***************************************************************************)
(* SPARQL UPDATE: CREATE GRAPH (PlanBuilder.build, update stage, dataset)  *)
(***************************************************************************)
\* the IRIs a CREATE GRAPH can name; the default graph is not among them
NamedGraphIRIs == {"gB", "gC"}

\* the stage builders the PlanBuilder constructor registers
stageBuilders ==
    {"aggregate", "bgp", "bind", "distinct", "filter", "graph", "minus", "service",
     "optional", "orderby", "path", "union", "update"}

\* Dataset.hasNamedGraph(iri)
hasNamedGraph(d, iri) == iri \in d.named

\* Dataset.addNamedGraph(iri, graph)
addNamedGraph(d, iri) == [d EXCEPT !.named = @ \cup {iri}]

\* Dataset.setGraphFactory(factory)
setGraphFactory(d) == [d EXCEPT !.factory = TRUE]

\* CREATE [SILENT] GRAPH <iri>
CreateOps == [type : {"create"}, graph : NamedGraphIRIs, silent : BOOLEAN]

Requests == UNION {[1..n -> CreateOps] : n \in 1..MaxRequest}

\* (a faulty variant of buildUpdate: no UPDATE stage builder is found)
buildUpdateNoStage(builders) == "threw"

\* build(), case 'update': throws without a stage builder for UPDATE, else returns
\* what the stage builder's execute(query.updates, context) returns, a consumable
buildUpdate(builders) == IF "update" \notin builders THEN "threw" ELSE "consumable"

\* executing one CREATE: an existing graph is an error unless SILENT; a new graph is
\* made by the dataset's factory and added to the dataset; no factory is an error
executeCreate(d, u) ==
    IF hasNamedGraph(d, u.graph)
    THEN [ok |-> u.silent, dataset |-> d]
    ELSE IF d.factory
         THEN [ok |-> TRUE, dataset |-> addNamedGraph(d, u.graph)]
         ELSE [ok |-> FALSE, dataset |-> d]

InitUpdateIdle ==
    /\ dataset = [named |-> {}, factory |-> FALSE]
    /\ ubefore = [named |-> {}, factory |-> FALSE]
    /\ urequest = <<>>
    /\ uplan = "none"
    /\ upos = 0
    /\ upc = "idle"

\* engine._dataset.setGraphFactory(() => new N3Graph())
SetGraphFactory ==
    /\ upc = "idle"
    /\ dataset' = setGraphFactory(dataset)
    /\ UNCHANGED <<ubefore, urequest, uplan, upos, upc>>
    /\ UNCHANGED <<cacheVars, queryVars, bindVars, joinVars, valuesVars, modVars, setVars, stageVars, describeVars, nestVars, aggVars, treeVars, xmlVars>>

\* engine.addNamedGraph(iri, graph)
AddNamedGraph(iri) ==
    /\ upc = "idle"
    /\ dataset' = addNamedGraph(dataset, iri)
    /\ UNCHANGED <<ubefore, urequest, uplan, upos, upc>>
    /\ UNCHANGED <<cacheVars, queryVars, bindVars, joinVars, valuesVars, modVars, setVars, stageVars, describeVars, nestVars, aggVars, treeVars, xmlVars>>

\* engine.execute(query): builder.build(query) on an update request
BuildUpdate(updates) ==
    /\ upc = "idle"
    /\ urequest' = updates
    /\ ubefore' = dataset
    /\ uplan' = buildUpdate(stageBuilders)
    /\ upc' = IF uplan' = "consumable" THEN "built" ELSE "failed"
    /\ UNCHANGED <<dataset, upos>>
    /\ UNCHANGED <<cacheVars, queryVars, bindVars, joinVars, valuesVars, modVars, setVars, stageVars, describeVars, nestVars, aggVars, treeVars, xmlVars>>

\* consumable.execute() is called
Execute ==
    /\ upc = "built"
    /\ upc' = "executing"
    /\ UNCHANGED <<dataset, ubefore, urequest, uplan, upos>>
    /\ UNCHANGED <<cacheVars, queryVars, bindVars, joinVars, valuesVars, modVars, setVars, stageVars, describeVars, nestVars, aggVars, treeVars, xmlVars>>

\* the next update of the request is executed; a failure aborts the remaining ones
ExecuteNext ==
    /\ upc = "executing"
    /\ upos < Len(urequest)
    /\ LET r == executeCreate(dataset, urequest[upos + 1])
       IN /\ dataset' = r.dataset
          /\ upos' = upos + 1
          /\ upc' = IF r.ok THEN "executing" ELSE "failed"
    /\ UNCHANGED <<ubefore, urequest, uplan>>
    /\ UNCHANGED <<cacheVars, queryVars, bindVars, joinVars, valuesVars, modVars, setVars, stageVars, describeVars, nestVars, aggVars, treeVars, xmlVars>>

\* every update of the request was executed: the promise of execute() resolves
ExecuteComplete ==
    /\ upc = "executing"
    /\ upos = Len(urequest)
    /\ upc' = "done"
    /\ UNCHANGED <<dataset, ubefore, urequest, uplan, upos>>
    /\ UNCHANGED <<cacheVars, queryVars, bindVars, joinVars, valuesVars, modVars, setVars, stageVars, describeVars, nestVars, aggVars, treeVars, xmlVars>>

NextUpdate ==
    \/ SetGraphFactory
    \/ \E iri \in NamedGraphIRIs : AddNamedGraph(iri)
    \/ upc = "idle" /\ \E updates \in Requests : BuildUpdate(updates)
    \/ Execute
    \/ ExecuteNext
    \/ ExecuteComplete

----------------------------------------------------------------------------
(* The BGP stage (BGPStageBuilder.execute): blank nodes are replaced by     *)
(* variables, the BGP is evaluated per input mapping on the graph, the      *)
(* extracted full-text-search queries are joined, the variables that stand  *)
(* for blank nodes are filtered out.  What the graph returns is an input.   *)

\* the values of the blank nodes of a parsed query: e_<label> for _:<label>,
\* g_<n> for anonymous ones
BlankValues == {"e_x", "g_0"}

\* value.slice(2)
slice2(v) ==
    CASE v = "e_x" -> "x"
      [] v = "g_0" -> "0"

\* the variable of the context that names the active graph
GraphVar == "g"

\* the classic triple patterns of a BGP
StagePatterns ==
    [subject : {Var("x"), BNode("e_x")},
     predicate : {IRI("p")},
     object : {Var("o"), BNode("e_x"), BNode("g_0")}]

\* the full-text-search queries extracted from a BGP
FtsQueries == 1..MaxFts

StageBGPs == UNION {[1..n -> StagePatterns] : n \in 1..MaxTriples}

\* the mappings of the source: ?x and the graph variable, bound or not
StageMappings ==
    UNION {[D -> {IRI("a")}] : D \in SUBSET {"x", GraphVar}}

StageInputs == UNION {[1..n -> StageMappings] : n \in 1..MaxStageInputs}

\* the terms of the patterns, pattern by pattern, subject, predicate, object
termsOf(patterns) ==
    [k \in 1..(3 * Len(patterns)) |->
        patterns[((k - 1) \div 3) + 1][Positions[((k - 1) % 3) + 1]]]

\* the names of the variables in the patterns
variablesOf(patterns) ==
    {termsOf(patterns)[k].value :
        k \in {j \in 1..(3 * Len(patterns)) : isVariable(termsOf(patterns)[j])}}

\* rewrite of _replaceBlankNodes: a blank node becomes the variable named
\* by its value without the first two characters
rewrite(term) == IF isBlankNode(term) THEN Var(slice2(term.value)) ELSE term

\* _replaceBlankNodes: the rewritten BGP and the variables added, one entry
\* per occurrence of a blank node (indexOf compares objects)
replaceBlankNodes(patterns) ==
    [bgp |-> [i \in DOMAIN patterns |->
                [k \in DOMAIN patterns[i] |-> rewrite(patterns[i][k])]],
     artificals |->
        LET blanks == SelectSeq(termsOf(patterns), isBlankNode)
        IN  [j \in DOMAIN blanks |-> rewrite(blanks[j])]]

\* b.filter(variable => artificals.map(v => v.value).indexOf(variable.value) < 0)
removeArtificals(b, artificals) ==
    LET names == {artificals[j].value : j \in DOMAIN artificals}
    IN  [n \in DOMAIN b \ names |-> b[n]]

\* what graph.evalBGP may return for the bounded BGP: the mappings that
\* bind each of its variables
evalBGPResults(bgp, bindings) ==
    LET bounded == [i \in DOMAIN bgp |-> bound(bindings, bgp[i])]
    IN  [variablesOf(bounded) -> {IRI("a"), IRI("b")}]

InitStageIdle ==
    /\ gpatterns = <<>>
    /\ gqueries = {}
    /\ ggraphVar = FALSE
    /\ ginput = <<>>
    /\ gpos = 0
    /\ gout = <<>>
    /\ gpc = "idle"

\* execute(source, patterns, context), patterns not empty
StageExecute(patterns, queries, graphVar, input) ==
    /\ gpc = "idle"
    /\ gpatterns' = patterns
    /\ gqueries' = queries
    /\ ggraphVar' = graphVar
    /\ ginput' = input
    /\ gpc' = "running"
    /\ UNCHANGED <<gpos, gout>>
    /\ UNCHANGED <<cacheVars, queryVars, bindVars, joinVars, valuesVars, modVars, setVars, updateVars, describeVars, nestVars, aggVars, treeVars, xmlVars>>

\* the active graph is a variable and the input mapping does not bind it:
\* no graph is found or created, the callback throws
StageNoGraph ==
    /\ gpc = "running"
    /\ gpos < Len(ginput)
    /\ ggraphVar
    /\ GraphVar \notin DOMAIN ginput[gpos + 1]
    /\ gpos' = gpos + 1
    /\ gpc' = "errored"
    /\ UNCHANGED <<gpatterns, gqueries, ggraphVar, ginput, gout>>
    /\ UNCHANGED <<cacheVars, queryVars, bindVars, joinVars, valuesVars, modVars, setVars, updateVars, describeVars, nestVars, aggVars, treeVars, xmlVars>>

\* the next input mapping is joined with what the graph returns for it
\* (items); with a variable graph the iterator of _buildIterator is
\* returned after the filter, else the FTS stages are applied to it first
\* (matched: the mapping passes them)
StageNext(items, matched) ==
    /\ gpc = "running"
    /\ gpos < Len(ginput)
    /\ ggraphVar => GraphVar \in DOMAIN ginput[gpos + 1]
    /\ LET value == ginput[gpos + 1]
           r == replaceBlankNodes(gpatterns)
           joined == [j \in DOMAIN items |-> union(items[j], value)]
           applied == IF ggraphVar THEN {} ELSE gqueries
           kept == IF applied # {} /\ ~matched THEN <<>> ELSE joined
       IN  /\ \A j \in DOMAIN items : items[j] \in evalBGPResults(r.bgp, value)
           /\ gout' = gout \o
                [j \in DOMAIN kept |->
                    [src |-> gpos + 1,
                     fts |-> applied,
                     mu |-> IF Len(r.artificals) > 0
                            THEN removeArtificals(kept[j], r.artificals)
                            ELSE kept[j]]]
    /\ gpos' = gpos + 1
    /\ UNCHANGED <<gpatterns, gqueries, ggraphVar, ginput, gpc>>
    /\ UNCHANGED <<cacheVars, queryVars, bindVars, joinVars, valuesVars, modVars, setVars, updateVars, describeVars, nestVars, aggVars, treeVars, xmlVars>>

\* the source completes
StageComplete ==
    /\ gpc = "running"
    /\ gpos = Len(ginput)
    /\ gpc' = "done"
    /\ UNCHANGED <<gpatterns, gqueries, ggraphVar, ginput, gpos, gout>>
    /\ UNCHANGED <<cacheVars, queryVars, bindVars, joinVars, valuesVars, modVars, setVars, updateVars, describeVars, nestVars, aggVars, treeVars, xmlVars>>

\* the results the graph delivers for one input mapping: none or one
StageItems(patterns, value) ==
    {<<>>} \cup {<<item>> : item \in evalBGPResults(replaceBlankNodes(patterns).bgp, value)}

NextStage ==
    \/ gpc = "idle" /\ \E patterns \in StageBGPs, queries \in SUBSET FtsQueries,
                          graphVar \in BOOLEAN, input \in StageInputs :
                            StageExecute(patterns, queries, graphVar, input)
    \/ StageNoGraph
    \/ gpc = "running" /\ gpos < Len(ginput)
         /\ \E items \in StageItems(gpatterns, ginput[gpos + 1]), matched \in BOOLEAN :
                StageNext(items, matched)
    \/ StageComplete

----------------------------------------------------------------------------
(* DESCRIBE and CONSTRUCT queries (PlanBuilder._buildQueryPlan): a DESCRIBE *)
(* query is rewritten into a CONSTRUCT query and planned again.  A parsed   *)
(* query is an object: has<Key> tells whether the key is in it.             *)

\* the resources a DESCRIBE names: a variable or an IRI
Described == {Var("x"), IRI("r")}

\* the triple pattern added for the described resource v
describeTriple(v) ==
    [subject |-> v,
     predicate |-> Var("pred__describe__" \o v.value),
     object |-> Var("obj__describe__" \o v.value)]

DescribeQueries ==
    [queryType : {"DESCRIBE", "CONSTRUCT"},
     prefixes : {"ex"},
     from : {"none", "gA"},
     where : {<<"bgp">>},
     variables : {<<>>} \cup UNION {[1..n -> Described] : n \in 1..MaxDescribed},
     template : {<<>>, <<describeTriple(Var("x"))>>},
     hasOrder : BOOLEAN, hasDistinct : BOOLEAN,
     hasOffset : BOOLEAN, offset : 0..MaxOffset,
     hasLimit : BOOLEAN, limit : 0..MaxLimit]

\* what the parser produces: a DESCRIBE has resources and no template, a
\* CONSTRUCT has a template and no resources
WellFormedDescribe(q) ==
    /\ WellFormed(q)
    /\ q.queryType = "DESCRIBE" => (q.variables # <<>> /\ q.template = <<>>)
    /\ q.queryType = "CONSTRUCT" => (q.variables = <<>> /\ q.template # <<>>)

NoDescribeQuery ==
    [queryType |-> "none", prefixes |-> "", from |-> "none", where |-> <<>>,
     variables |-> <<>>, template |-> <<>>, hasOrder |-> FALSE, hasDistinct |-> FALSE,
     hasOffset |-> FALSE, offset |-> 0, hasLimit |-> FALSE, limit |-> 0]

\* the object literal 'construct': prefixes, from, queryType, template, type
\* and where, and no other key
describeToConstruct(q) ==
    [NoDescribeQuery EXCEPT
        !.queryType = "CONSTRUCT", !.prefixes = q.prefixes, !.from = q.from,
        !.template = [i \in DOMAIN q.variables |-> describeTriple(q.variables[i])],
        !.where = q.where \o <<"describe">>]

\* the CONSTRUCT modifier: every solution instantiates every template triple
construct(s, template) ==
    [k \in 1..(Len(s) * Len(template)) |->
        [mu |-> s[((k - 1) \div Len(template)) + 1],
         triple |-> ((k - 1) % Len(template)) + 1]]

\* the stages _buildQueryPlan wraps around the solutions s of the WHERE
\* clause of q
planOutput(q, s) ==
    LET o == IF q.hasOrder THEN orderBy(s) ELSE s
        c == construct(o, q.template)
        d == IF q.hasDistinct THEN distinct(c) ELSE c
        k == IF q.hasOffset THEN skip(d, q.offset) ELSE d
    IN  IF q.hasLimit THEN limit(k, q.limit) ELSE k

DescribeInputs == UNION {[1..n -> ModMappings] : n \in 0..MaxDescribeSolutions}

InitDescribeIdle ==
    /\ dquery = NoDescribeQuery
    /\ dplanned = NoDescribeQuery
    /\ dinput = <<>>
    /\ dout = <<>>
    /\ dpc = "idle"

\* _buildQueryPlan(query): a DESCRIBE is rewritten and planned as the
\* rewritten query
DescribeBuild(q) ==
    /\ dpc = "idle"
    /\ WellFormedDescribe(q)
    /\ dquery' = q
    /\ dplanned' = IF q.queryType = "DESCRIBE" THEN describeToConstruct(q) ELSE q
    /\ dpc' = "built"
    /\ UNCHANGED <<dinput, dout>>
    /\ UNCHANGED <<cacheVars, queryVars, bindVars, joinVars, valuesVars, modVars, setVars, updateVars, stageVars, nestVars, aggVars, treeVars, xmlVars>>

\* the plan is consumed: the WHERE clause produces s
DescribeExecute(s) ==
    /\ dpc = "built"
    /\ dinput' = s
    /\ dout' = planOutput(dplanned, s)
    /\ dpc' = "done"
    /\ UNCHANGED <<dquery, dplanned>>
    /\ UNCHANGED <<cacheVars, queryVars, bindVars, joinVars, valuesVars, modVars, setVars, updateVars, stageVars, nestVars, aggVars, treeVars, xmlVars>>

NextDescribe ==
    \/ dpc = "idle" /\ \E q \in DescribeQueries : DescribeBuild(q)
    \/ dpc = "built" /\ \E s \in DescribeInputs : DescribeExecute(s)

----------------------------------------------------------------------------
(* Nested groups and the LIMIT/OFFSET flag (PlanBuilder._buildQueryPlan,    *)
(* _buildWhere, _buildGroup): every group is built with a clone of the      *)
(* context of its parent; a subquery is planned by _buildQueryPlan on the   *)
(* clone.  A BGP stage asks its own context whether caching is enabled.     *)

\* a group of a WHERE clause: a BGP, a group, a UNION, or a subquery with
\* its own LIMIT/OFFSET
Node(t, l, o, p) == [type |-> t, hasLimit |-> l, hasOffset |-> o, patterns |-> p]

BgpNode == Node("bgp", FALSE, FALSE, <<>>)

NestGroups ==
    {BgpNode, Node("group", FALSE, FALSE, <<BgpNode>>),
     Node("union", FALSE, FALSE, <<BgpNode, BgpNode>>)}
    \cup {Node("query", l, o, <<BgpNode>>) : l \in BOOLEAN, o \in BOOLEAN}

NestQueries ==
    {Node("query", l, o, p) :
        l \in BOOLEAN, o \in BOOLEAN,
        p \in UNION {[1..n -> NestGroups] : n \in 1..MaxGroups}}

NoNode == Node("none", FALSE, FALSE, <<>>)

\* ExecutionContext.clone(): a new context with the same properties and cache
clone(c) == c

RECURSIVE buildWhereFrom(_, _, _, _)
RECURSIVE buildGroup(_, _, _)
RECURSIVE buildQueryPlan(_, _, _)

\* _buildQueryPlan: the flag of the context is set from the query, then the
\* WHERE clause is built
buildQueryPlan(q, c, path) ==
    buildWhereFrom(q.patterns, [c EXCEPT !.hasLimitOffset = HasLimitOffset(q)], path, 1)

\* _buildWhere: the groups from the i-th on are built in order, on the same
\* context
buildWhereFrom(groups, c, path, i) ==
    IF i > Len(groups) THEN <<>>
    ELSE buildGroup(groups[i], c, Append(path, i)) \o buildWhereFrom(groups, c, path, i + 1)

\* _buildGroup: the BGP stages built for the group, each with its context
buildGroup(g, c, path) ==
    LET childContext == clone(c)
    IN  CASE g.type = "bgp" -> <<[path |-> path, context |-> childContext]>>
          [] g.type = "query" -> buildQueryPlan(g, childContext, path)
          [] OTHER -> buildWhereFrom(g.patterns, childContext, path, 1)

InitNestIdle ==
    /\ nquery = NoNode
    /\ ncache = FALSE
    /\ nplan = <<>>
    /\ npos = 0
    /\ ncached = {}
    /\ npc = "idle"

\* build(query) with or without a cache in force
NestBuild(q, cacheSet) ==
    /\ npc = "idle"
    /\ nquery' = q
    /\ ncache' = cacheSet
    /\ nplan' = buildQueryPlan(q, [cache |-> cacheSet, hasLimitOffset |-> FALSE], <<>>)
    /\ npc' = "running"
    /\ UNCHANGED <<npos, ncached>>
    /\ UNCHANGED <<cacheVars, queryVars, bindVars, joinVars, valuesVars, modVars, setVars, updateVars, stageVars, describeVars, aggVars, treeVars, xmlVars>>

\* the next BGP stage is evaluated: through the cache when caching is
\* enabled on its context
NestEvalBGP ==
    /\ npc = "running"
    /\ npos < Len(nplan)
    /\ ncached' = IF cachingEnabled(nplan[npos + 1].context)
                  THEN ncached \cup {nplan[npos + 1].path}
                  ELSE ncached
    /\ npos' = npos + 1
    /\ UNCHANGED <<nquery, ncache, nplan, npc>>
    /\ UNCHANGED <<cacheVars, queryVars, bindVars, joinVars, valuesVars, modVars, setVars, updateVars, stageVars, describeVars, aggVars, treeVars, xmlVars>>

NestComplete ==
    /\ npc = "running"
    /\ npos = Len(nplan)
    /\ npc' = "done"
    /\ UNCHANGED <<nquery, ncache, nplan, npos, ncached>>
    /\ UNCHANGED <<cacheVars, queryVars, bindVars, joinVars, valuesVars, modVars, setVars, updateVars, stageVars, describeVars, aggVars, treeVars, xmlVars>>

NextNest ==
    \/ npc = "idle" /\ \E q \in NestQueries, cacheSet \in BOOLEAN : NestBuild(q, cacheSet)
    \/ NestEvalBGP
    \/ NestComplete

----------------------------------------------------------------------------
(* Aggregates on a grouped mapping (SPARQLExpression, aggregate case): the  *)
(* mapping carries its group in the property __aggregate, a map from        *)
(* variable name to the list of the terms of the group's rows.              *)
(* Bindings.clone() copies the properties by reference, so the successive   *)
(* BIND stages of a query see one and the same group object.                *)

AggVars == {"x", "y"}
AggTerms == 1..2

\* the groups the aggregate stage may attach: one list per variable, of
\* the same length
AggGroups == UNION {[AggVars -> [1..n -> AggTerms]] : n \in 1..MaxGroupRows}

\* COUNT(?v), COUNT(DISTINCT ?v), SUM(?v), SUM(DISTINCT ?v)
AggExprs == [aggregation : {"count", "sum"}, distinct : BOOLEAN, variable : AggVars]

AggExprSeqs == UNION {[1..n -> AggExprs] : n \in 1..MaxAggregates}

RECURSIVE sumOf(_)
sumOf(s) == IF s = <<>> THEN 0 ELSE Head(s) + sumOf(Tail(s))

\* SPARQL_AGGREGATES[aggregation](variable, rows)
aggregation(name, variable, rows) ==
    IF name = "count" THEN Len(rows[variable]) ELSE sumOf(rows[variable])

\* uniqBy(rows.get(variable), rdf.toN3): first occurrences, in order
uniqBy(s) == distinct(s)

\* the group after the closure of e has run: a DISTINCT aggregate replaces
\* the list of its variable in the group by the deduplicated list
rowsAfter(e, rows) ==
    IF e.distinct THEN [rows EXCEPT ![e.variable] = uniqBy(@)] ELSE rows

InitAggIdle ==
    /\ aexprs = <<>>
    /\ aorig = <<>>
    /\ arows = <<>>
    /\ ares = <<>>
    /\ apc = "idle"

\* the aggregate stage emits a mapping with its group; the BIND stages of
\* the expressions exprs follow
AggStart(exprs, group) ==
    /\ apc = "idle"
    /\ aexprs' = exprs
    /\ aorig' = group
    /\ arows' = group
    /\ ares' = <<>>
    /\ apc' = "running"
    /\ UNCHANGED <<cacheVars, queryVars, bindVars, joinVars, valuesVars, modVars, setVars, updateVars, stageVars, describeVars, nestVars, treeVars, xmlVars>>

\* the next BIND stage evaluates its expression on (a clone of) the mapping
AggEvaluate ==
    /\ apc = "running"
    /\ Len(ares) < Len(aexprs)
    /\ LET e == aexprs[Len(ares) + 1]
       IN  /\ arows' = rowsAfter(e, arows)
           /\ ares' = Append(ares, aggregation(e.aggregation, e.variable, arows'))
    /\ UNCHANGED <<aexprs, aorig, apc>>
    /\ UNCHANGED <<cacheVars, queryVars, bindVars, joinVars, valuesVars, modVars, setVars, updateVars, stageVars, describeVars, nestVars, treeVars, xmlVars>>

AggComplete ==
    /\ apc = "running"
    /\ Len(ares) = Len(aexprs)
    /\ apc' = "done"
    /\ UNCHANGED <<aexprs, aorig, arows, ares>>
    /\ UNCHANGED <<cacheVars, queryVars, bindVars, joinVars, valuesVars, modVars, setVars, updateVars, stageVars, describeVars, nestVars, treeVars, xmlVars>>

NextAgg ==
    \/ apc = "idle" /\ \E exprs \in AggExprSeqs, group \in AggGroups : AggStart(exprs, group)
    \/ AggEvaluate
    \/ AggComplete

----------------------------------------------------------------------------
(* Planning a parsed query (PlanBuilder._buildQueryPlan / _buildWhere): the *)
(* groups of a WHERE clause are ordered by rank, BGPs that are adjacent     *)
(* after ordering are merged, and the result is evaluated left to right.    *)
(* The groups are the objects of the parsed tree: what the planner assigns  *)
(* to one of them, or to the query, is seen by the holder of the tree.      *)

MaxWhere == 3
MaxBuilds == 2

Wildcard == [termType |-> "Wildcard", value |-> "*"]
isWildcard(v) == "termType" \in DOMAIN v /\ v.termType = "Wildcard"
isVariableTerm(v) == "termType" \in DOMAIN v /\ v.termType = "Variable"
VariableExpression(e, v) == [expression |-> e, variable |-> v]

Group(type, name, triples) == [type |-> type, name |-> name, triples |-> triples]

WhereTriples == {"t1", "t2"}

WhereGroups ==
    {Group("bgp", NoTerm, <<t>>) : t \in WhereTriples}
        \cup {Group("graph", n, <<>>) : n \in {IRI("g"), Var("g")}}
        \cup {Group(type, NoTerm, <<>>) :
                type \in {"values", "filter", "optional", "union", "bind"}}

WhereClauses == UNION {[1..n -> WhereGroups] : n \in 1..MaxWhere}

VariableLists ==
    { <<Wildcard>>,
      <<Var("s")>>,
      <<VariableExpression("count", Var("c"))>>,
      <<Var("s"), VariableExpression("count", Var("c"))>>,
      <<VariableExpression("count", Var("c")), Var("s")>> }

ParsedQueries == [variables : VariableLists, where : WhereClauses]

NoTree == [variables |-> <<>>, where |-> <<>>]

\* a faulty variant of rank: FILTER ranked as a generic group
rankFilterGeneric(g) ==
    CASE g.type = "graph" -> IF g.name.termType = "Variable" THEN 5 ELSE 0
      [] g.type = "bgp" -> 0
      [] g.type = "values" -> 3
      [] g.type = "filter" -> 1
      [] OTHER -> 1

\* the key function given to sortBy
rank(g) ==
    CASE g.type = "graph" -> IF g.name.termType = "Variable" THEN 5 ELSE 0
      [] g.type = "bgp" -> 0
      [] g.type = "values" -> 3
      [] g.type = "filter" -> 4
      [] OTHER -> 1

\* sortBy(groups, rank): the indexes of groups in ascending order of rank,
\* ties broken by the index
sortBy(groups) ==
    LET n == Len(groups)
        before(i, j) ==
            \/ rank(groups[i]) < rank(groups[j])
            \/ rank(groups[i]) = rank(groups[j]) /\ i < j
        place(i) == 1 + Cardinality({j \in 1..n : before(j, i)})
    IN  [k \in 1..n |-> CHOOSE i \in 1..n : place(i) = k]

\* the merge loop of _buildWhere from the i-th sorted group on: newGroups
\* holds the indexes of the group objects kept, and the triples of a BGP that
\* follows a BGP are assigned into the last kept object
RECURSIVE mergeBGPs(_, _, _, _)
mergeBGPs(groups, order, i, newGroups) ==
    IF i > Len(order) THEN [groups |-> groups, newGroups |-> newGroups]
    ELSE LET group == groups[order[i]]
             prec == IF i = 1 THEN NoTerm ELSE groups[order[i - 1]]
         IN  IF group.type = "bgp" /\ i > 1 /\ prec.type = "bgp"
             THEN LET last == newGroups[Len(newGroups)]
                      lastGroup == groups[last]
                  IN  mergeBGPs([groups EXCEPT ![last].triples =
                                     lastGroup.triples \o group.triples],
                                order, i + 1, newGroups)
             ELSE mergeBGPs(groups, order, i + 1, Append(newGroups, order[i]))

\* deepApplyBindings on the groups that are no VALUES clause: new objects
deepApplyBindings(groups) == SelectSeq(groups, LAMBDA g : g.type # "values")

\* _buildWhere: the sequence of groups given to _buildGroup, in evaluation
\* order, and the groups of the tree after the call. With a VALUES clause
\* the other groups are bound to each row and built again (_buildValues).
buildWhere(groups) ==
    LET order == sortBy(groups)
        sorted == [k \in DOMAIN order |-> groups[order[k]]]
    IN  IF \E k \in DOMAIN sorted : sorted[k].type = "values"
        THEN LET temp == deepApplyBindings(sorted)
                 merged == mergeBGPs(temp, sortBy(temp), 1, <<>>)
             IN  [evaluated |-> [k \in DOMAIN merged.newGroups |->
                                   merged.groups[merged.newGroups[k]]],
                  groups |-> groups]
        ELSE LET merged == mergeBGPs(groups, order, 1, <<>>)
             IN  [evaluated |-> [k \in DOMAIN merged.newGroups |->
                                   merged.groups[merged.newGroups[k]]],
                  groups |-> merged.groups]

\* _buildQueryPlan on a SELECT query: the WHERE clause, then the partition of
\* query.variables into projection variables and variable-expressions, whose
\* variables replace them in query.variables
buildSelectPlan(q) ==
    LET built == buildWhere(q.where)
        split == Len(q.variables) > 0 /\ ~isWildcard(q.variables[1])
        variableExpressions ==
            IF split THEN SelectSeq(q.variables, LAMBDA v : ~isVariableTerm(v))
            ELSE <<>>
        projection ==
            IF split
            THEN SelectSeq(q.variables, isVariableTerm)
                     \o [k \in DOMAIN variableExpressions |->
                            variableExpressions[k].variable]
            ELSE q.variables
    IN  [plan |-> [where |-> built.evaluated,
                   binds |-> variableExpressions,
                   select |-> projection],
         query |-> [variables |-> projection, where |-> built.groups]]

InitTreeIdle ==
    /\ ttree = NoTree
    /\ tparsed = NoTree
    /\ tgiven = <<>>
    /\ tplans = <<>>
    /\ tpc = "idle"

\* the caller parses a query and keeps the tree
TreeParse(q) ==
    /\ tpc = "idle"
    /\ ttree' = q
    /\ tparsed' = q
    /\ tpc' = "parsed"
    /\ UNCHANGED <<tgiven, tplans>>
    /\ UNCHANGED <<cacheVars, queryVars, bindVars, joinVars, valuesVars, modVars, setVars, updateVars, stageVars, describeVars, nestVars, aggVars, xmlVars>>

\* _buildQueryPlan(query, context) on the tree the caller holds
TreeBuild ==
    /\ tpc = "parsed"
    /\ Len(tplans) < MaxBuilds
    /\ LET built == buildSelectPlan(ttree)
       IN  /\ tgiven' = Append(tgiven, ttree)
           /\ tplans' = Append(tplans, built.plan)
           /\ ttree' = built.query
    /\ UNCHANGED <<tparsed, tpc>>
    /\ UNCHANGED <<cacheVars, queryVars, bindVars, joinVars, valuesVars, modVars, setVars, updateVars, stageVars, describeVars, nestVars, aggVars, xmlVars>>

NextTree ==
    \/ tpc = "idle" /\ \E q \in ParsedQueries : TreeParse(q)
    \/ TreeBuild

----------------------------------------------------------------------------
(* xmlFormat (formatters/xml-formatter.ts): the solutions of a source are   *)
(* pushed into an xml stream whose chunks are given to the subscriber of    *)
(* the formatted pipeline.                                                  *)

MaxXmlItems == 3

\* what a source emits: sets of bindings (SELECT) or a boolean (ASK)
XmlItems ==
    { [boolean |-> FALSE, variables |-> "s", value |-> "a"],
      [boolean |-> FALSE, variables |-> "s", value |-> "b"],
      [boolean |-> TRUE, variables |-> "", value |-> "true"] }

XmlSources ==
    [items : UNION {[1..n -> XmlItems] : n \in 0..MaxXmlItems},
     end : {"complete", "error"}]

NoSource == [items |-> <<>>, end |-> "none"]

isBoolean(b) == b.boolean

\* the head element built from the first set of bindings
headOf(b) == [tag |-> "head", content |-> b.variables]

\* _writeBoolean / _writeBindings: the element pushed for one item
elementOf(b) ==
    IF isBoolean(b) THEN [tag |-> "boolean", content |-> b.value]
    ELSE [tag |-> "result", content |-> b.value]

\* results.close() and root.close(): the closing tags
closingTags == << [tag |-> "/results", content |-> ""],
                  [tag |-> "/sparql", content |-> ""] >>

InitXmlIdle ==
    /\ xsource = NoSource
    /\ xpos = 0
    /\ xwarmup = TRUE
    /\ xout = <<>>
    /\ xstream = "open"
    /\ xsub = "open"
    /\ xlog = <<>>
    /\ xpc = "idle"

\* xmlFormat(source), and the formatted pipeline is subscribed to
XmlFormat(source) ==
    /\ xpc = "idle"
    /\ xsource' = source
    /\ xpc' = "subscribed"
    /\ UNCHANGED <<xpos, xwarmup, xout, xstream, xsub, xlog>>
    /\ UNCHANGED <<cacheVars, queryVars, bindVars, joinVars, valuesVars, modVars, setVars, updateVars, stageVars, describeVars, nestVars, aggVars, treeVars>>

\* source.subscribe: the callback of an item; the chunks the stream emits
\* for the pushed elements are passed on with input.next
XmlOnNext ==
    /\ xpc = "subscribed"
    /\ xpos < Len(xsource.items)
    /\ LET b == xsource.items[xpos + 1]
           head == IF xwarmup /\ ~isBoolean(b) THEN <<headOf(b)>> ELSE <<>>
       IN  /\ xout' = xout \o head \o <<elementOf(b)>>
           /\ xwarmup' = (xwarmup /\ isBoolean(b))
    /\ xpos' = xpos + 1
    /\ UNCHANGED <<xsource, xstream, xsub, xlog, xpc>>
    /\ UNCHANGED <<cacheVars, queryVars, bindVars, joinVars, valuesVars, modVars, setVars, updateVars, stageVars, describeVars, nestVars, aggVars, treeVars>>

\* source.subscribe: the error callback, (err) => console.error(err)
XmlOnError ==
    /\ xpc = "subscribed"
    /\ xpos = Len(xsource.items)
    /\ xsource.end = "error"
    /\ xlog' = Append(xlog, "err")
    /\ xpc' = "sourceFailed"
    /\ UNCHANGED <<xsource, xpos, xwarmup, xout, xstream, xsub>>
    /\ UNCHANGED <<cacheVars, queryVars, bindVars, joinVars, valuesVars, modVars, setVars, updateVars, stageVars, describeVars, nestVars, aggVars, treeVars>>

\* source.subscribe: the completion callback closes results and root
XmlOnComplete ==
    /\ xpc = "subscribed"
    /\ xpos = Len(xsource.items)
    /\ xsource.end = "complete"
    /\ xout' = xout \o closingTags
    /\ xstream' = "closing"
    /\ xpc' = "sourceCompleted"
    /\ UNCHANGED <<xsource, xpos, xwarmup, xsub, xlog>>
    /\ UNCHANGED <<cacheVars, queryVars, bindVars, joinVars, valuesVars, modVars, setVars, updateVars, stageVars, describeVars, nestVars, aggVars, treeVars>>

\* stream.on('end', () => input.complete())
XmlStreamEnd ==
    /\ xstream = "closing"
    /\ xstream' = "ended"
    /\ xsub' = "completed"
    /\ UNCHANGED <<xsource, xpos, xwarmup, xout, xlog, xpc>>
    /\ UNCHANGED <<cacheVars, queryVars, bindVars, joinVars, valuesVars, modVars, setVars, updateVars, stageVars, describeVars, nestVars, aggVars, treeVars>>

NextXml ==
    \/ xpc = "idle" /\ \E source \in XmlSources : XmlFormat(source)
    \/ XmlOnNext
    \/ XmlOnError
    \/ XmlOnComplete
    \/ XmlStreamEnd

NextWrite ==
    \/ \E b \in WriteBGPs, w \in Writers : Update(b, w)
    \/ \E b \in WriteBGPs, w \in Writers : Commit(b, w)

Init ==
    /\ InitCache
    /\ InitQueryIdle
    /\ InitBindIdle
    /\ InitJoinIdle
    /\ InitValuesIdle
    /\ InitModIdle
    /\ InitSetsIdle
    /\ InitUpdateIdle
    /\ InitStageIdle
    /\ InitDescribeIdle
    /\ InitNestIdle
    /\ InitAggIdle
    /\ InitTreeIdle
    /\ InitXmlIdle

SpecWrite == Init /\ [][NextWrite]_vars

SpecEvict == Init /\ [][NextEvict]_vars

SpecQuery == Init /\ [][NextQuery]_vars

SpecBind == Init /\ [][NextBind]_vars

SpecJoin == Init /\ [][NextJoin]_vars

SpecValues == Init /\ [][NextValues]_vars

SpecMod == Init /\ [][NextMod]_vars

SpecSets == Init /\ [][NextSets]_vars

SpecUpdate == Init /\ [][NextUpdate]_vars

SpecStage == Init /\ [][NextStage]_vars

SpecDescribe == Init /\ [][NextDescribe]_vars

SpecNest == Init /\ [][NextNest]_vars

SpecAgg == Init /\ [][NextAgg]_vars

SpecTree == Init /\ [][NextTree]_vars

\* the event loop runs every pending callback
SpecXml == Init /\ [][NextXml]_vars /\ WF_vars(NextXml)

Next == NextCache

Spec == Init /\ [][Next]_vars

(***************************************************************************)
(* Claims about the cache                                                  *)
(***************************************************************************)
bgpA1 == [patterns |-> <<1>>, graphIRI |-> "gA"]
bgpA31 == [patterns |-> <<3, 1>>, graphIRI |-> "gA"]

\* C1: once the first committer W has committed a BGP, has(B) is true and get(B)
\* resolves to exactly the mappings W passed to update() before, in call order.
C1_CommitInstallsUpdates ==
    \A b \in WriteBGPs :
        Key(b) \in DOMAIN winner =>
            /\ has(cache, b)
            /\ get(cache, b).status = "resolved"
            /\ get(cache, b).value = winner[Key(b)].content

C1_Witness ==
    \E b \in WriteBGPs :
        /\ Key(b) \in DOMAIN winner
        /\ Len(winner[Key(b)].content) = 2
        /\ has(cache, b)

\* C2: whatever the interleaving of the writers' update and commit calls on a BGP,
\* the cache holds at most one entry for it, whose content is what the first
\* committer had staged; no mapping of another writer is in it and a later commit
\* changes nothing.
C2_FirstCommitterWins ==
    \A k \in Keys :
        /\ Cardinality({i \in DOMAIN cache.order : cache.order[i] = k}) <= 1
        /\ (k \in DOMAIN cache.committed) = (k \in Range(cache.order))
        /\ (k \in DOMAIN cache.committed) = (k \in DOMAIN winner)
        /\ k \in DOMAIN winner =>
              /\ cache.committed[k] = winner[k].content
              /\ \A w \in Writers \ {winner[k].writer} :
                    Range(sent[<<k, w>>]) \cap Range(cache.committed[k]) = {}

C2_Witness ==
    \E k \in Keys :
        /\ commits = <<<<k, "W1">>, <<k, "W2">>>>
        /\ sent[<<k, "W2">>] = <<1>>
        /\ sent[<<k, "W1">>] = <<2>>
        /\ cache.committed[k] = <<2>>

IsOrderedSub(m, s) ==
    /\ IsInjective(m)
    /\ \A i, j \in DOMAIN m : i < j =>
          \E a, b \in DOMAIN s : a < b /\ s[a] = m[i] /\ s[b] = m[j]

\* C9: findSubset(b) returns the patterns S of a committed entry of b's graph whose
\* patterns all occur in b, none of the qualifying entries having more patterns, and
\* the patterns M of b that are not in S, in b's order; ([], patterns of b) when no
\* committed entry qualifies.
C9_FindSubsetLargest ==
    \A b \in BGPs :
        LET S == findSubset(cache, b)[1]
            M == findSubset(cache, b)[2]
            Q == {k \in DOMAIN cache.committed :
                    k.graphIRI = b.graphIRI /\ Range(k.patterns) \subseteq Range(b.patterns)}
        IN /\ Q = {} => S = <<>> /\ M = b.patterns
           /\ Q # {} => \E k \in Q : S = k.patterns /\ \A k2 \in Q : Len(k2.patterns) <= Len(S)
           /\ Range(M) = Range(b.patterns) \ Range(S)
           /\ IsOrderedSub(M, b.patterns)

C9_Witness ==
    /\ cache.order = <<Key(bgpA1), Key(bgpA31)>>
    /\ findSubset(cache, [patterns |-> <<3, 2, 1>>, graphIRI |-> "gA"]) = <<<<1, 3>>, <<2>>>>
    /\ findSubset(cache, [patterns |-> <<3, 2, 1>>, graphIRI |-> "gB"]) = <<<<>>, <<3, 2, 1>>>>

\* C10: get(bgp) is null when no writer ever called update or commit for bgp; when
\* mappings are staged and nobody has committed, it is a future that is pending as
\* long as nobody commits bgp and is resolved with the committed content afterwards.
C10_GetNullOrFuture ==
    \A i \in DOMAIN readers :
        LET r == readers[i]
        IN /\ r.atCall = "untouched" => r.status = "null"
           /\ r.atCall = "staged" =>
                 IF r.key \in DOMAIN winner
                 THEN r.status = "resolved" /\ r.value = winner[r.key].content
                 ELSE r.status = "pending"

C10_Witness ==
    \E i \in DOMAIN readers :
        /\ readers[i].atCall = "staged"
        /\ readers[i].status = "resolved"
        /\ readers[i].value # <<>>

C4_UnionFillsCacheOnce ==
    (qpc = "done" /\ ctx.cache /\ ~query.hasLimit /\ ~query.hasOffset
        /\ query.shape = "union") =>
        /\ Len(results) = 2 * GraphSize
        /\ \A x \in 1..GraphSize : Cardinality({i \in DOMAIN results : results[i] = x}) = 2
        /\ count(cache) = 1
        /\ has(cache, QueryBGP)
        /\ get(cache, QueryBGP).status = "resolved"
        /\ get(cache, QueryBGP).value = Solutions

C4_Witness ==
    /\ qpc = "done"
    /\ ctx.cache /\ ~query.hasLimit /\ ~query.hasOffset
    /\ query.shape = "union"
    /\ branches[1].mode = "write" /\ branches[2].mode = "write"
    /\ Len(results) = 2 * GraphSize
    /\ count(cache) = 1

----------------------------------------------------------------------------
(* BIND and the expression compiler                                         *)

RECURSIVE HasAggregate(_)
\* an aggregate, built-in or custom, occurs in the tree of e
HasAggregate(e) ==
    \/ e.type = "aggregate"
    \/ e.type = "functionCall" /\ e.name \in CUSTOM_AGGREGATES
    \/ \E i \in DOMAIN e.args : HasAggregate(e.args[i])

RECURSIVE CallsUnknown(_)
\* a call of a function IRI that is in no table occurs in the tree of e
CallsUnknown(e) ==
    \/ e.type = "functionCall" /\ e.name \notin CUSTOM_AGGREGATES \cup customFunctions
    \/ \E i \in DOMAIN e.args : CallsUnknown(e.args[i])

\* e is an aggregate expression, built-in or custom
IsAggregate(e) ==
    \/ e.type = "aggregate"
    \/ e.type = "functionCall" /\ e.name \in CUSTOM_AGGREGATES

\* C5: when the source of BIND(e AS ?target) has completed, for e built from
\* custom function calls, built-in operations, variables and constants,
\* exactly one mapping was emitted per input mapping, in order: the input
\* mapping extended with ?target bound to a term or to Unbound.
C5_BindOnePerInput ==
    (bpc = "done" /\ ~HasAggregate(bexpr)) =>
        /\ Len(bout) = Len(binput)
        /\ \A i \in DOMAIN bout :
            /\ bout[i].src = i
            /\ DOMAIN bout[i].mu.vars = DOMAIN binput[i].vars \cup {TargetVar}
            /\ \A n \in DOMAIN binput[i].vars : bout[i].mu.vars[n] = binput[i].vars[n]
            /\ bout[i].mu.vars[TargetVar].tt \in {"Literal", "Unbound"}

\* C6: once bind() was called with an expression that calls an unknown
\* function IRI anywhere in its tree, the build has failed and no mapping
\* is ever produced.
C6_UnknownFunctionFailsBuild ==
    (bpc # "idle" /\ CallsUnknown(bexpr)) => (bpc = "failed" /\ bout = <<>>)

\* C7: once the aggregate expression of a BIND was evaluated on a mapping
\* without __aggregate, an error has reached the subscriber.
C7_AggregateOutsideGroupFatal ==
    (/\ IsAggregate(bexpr)
     /\ \E i \in 1..bpos : ~binput[i].hasAggregate) => berr

\* the result of A decides the logical operation e without B
Decided(e, mu) ==
    LET a == evaluate(e.args[1], mu)
    IN  /\ e.type = "operation"
        /\ a.k = "term"
        /\ \/ e.name = "&&" /\ ~asBoolean(a.term)
           \/ e.name = "||" /\ asBoolean(a.term)

\* C21: for A && B with A false and for A || B with A true, B is not
\* evaluated: whatever B is, the BIND of the expression has emitted, for every
\* input mapping processed, the mapping extended with the value of A (false
\* for &&, true for ||).
C21_LogicalShortCircuit ==
    \A i \in 1..bpos :
        (bpc \in {"running", "done"} /\ Decided(bexpr, binput[i])) =>
            \E j \in DOMAIN bout :
                /\ bout[j].src = i
                /\ bout[j].mu.vars[TargetVar] = Bool(bexpr.name = "||")

----------------------------------------------------------------------------
(* Joins                                                                    *)

\* C8: every mapping a join strategy emits for the input mapping contains
\* the input mapping: each of its variables, with the same term.
C8_JoinOutputContainsInput ==
    \A i \in DOMAIN jout :
        \A n \in DOMAIN jin : n \in DOMAIN jout[i] /\ jout[i][n] = jin[n]

\* bgpEvaluation has emitted a mapping for a result of evalBGP that binds
\* ?s to another term than the input mapping does
C8_Witness ==
    /\ jkind = "bgpEvaluation"
    /\ "s" \in DOMAIN jin
    /\ \E i \in DOMAIN jitems :
        /\ "s" \in DOMAIN jitems[i].bindings
        /\ jitems[i].bindings["s"] # jin["s"]
        /\ i \in DOMAIN jout

----------------------------------------------------------------------------
(* The cache, continued                                                     *)

\* C11: an update(bgp, m, W) made while bgp has a committed entry changes
\* nothing a reader can see: get(bgp), has(bgp) and count() are the same
\* before and after the call.
C11_UpdateAfterCommitDropped ==
    [][\A b \in WriteBGPs, w \in Writers :
          (has(cache, b) /\ sent'[<<Key(b), w>>] # sent[<<Key(b), w>>]) =>
              /\ get(cache', b) = get(cache, b)
              /\ has(cache', b)
              /\ count(cache') = count(cache)]_vars

\* the first committer of a key has called update for it again after its commit
C11_Witness ==
    \E k \in DOMAIN winner :
        /\ k \in DOMAIN cache.committed
        /\ Len(sent[<<k, winner[k].writer>>]) > Len(winner[k].content)
        /\ Len(winner[k].content) > 0

\* C12: a step that evicts a key leaves no staged buffer for it and no
\* pending future on it; a future is never pending on a key no writer is
\* writing; and no committed entry ever holds a mapping that was staged
\* when its key was evicted.
C12_EvictionDiscardsStaged ==
    /\ [][\A k \in Keys :
            (Len(evicted') > Len(evicted) /\ evicted'[Len(evicted')] = k) =>
                /\ StagedWriters(cache', k) = {}
                /\ \A i \in DOMAIN readers' :
                      readers'[i].key = k => readers'[i].status # "pending"]_vars
    /\ [](\A i \in DOMAIN readers :
            readers[i].status = "pending" => StagedWriters(cache, readers[i].key) # {})
    /\ [](\A k \in DOMAIN cache.committed : Range(cache.committed[k]) \cap discarded = {})

\* a key was evicted while a mapping was staged and a future was pending
\* on it, and a commit for the key has arrived afterwards
C12_Witness ==
    /\ discarded # {}
    /\ \E i \in DOMAIN readers :
        /\ readers[i].status = "failed"
        /\ readers[i].key \in DOMAIN cache.committed

----------------------------------------------------------------------------
(* VALUES                                                                   *)

\* the mappings that bind exactly ?s and ?o
FullMappings == [{"s", "o"} -> {IRI("a"), IRI("b"), IRI("c"), IRI("d")}]

\* the triple of the body under the mapping mu is in the graph
InGraph(mu) ==
    \E i \in DOMAIN VGraph : VGraph[i].subject = mu["s"] /\ VGraph[i].object = mu["o"]

\* number of rows of the clause that hold the term t
RowsWith(clause, t) == Cardinality({j \in DOMAIN clause.rows : clause.rows[j] = t})

C14_TwoValuesIsProduct ==
    (vpc = "done" /\ Len(vclauses) = 2) =>
        /\ Cardinality(DOMAIN vbranches) = Len(vclauses[1].rows) * Len(vclauses[2].rows)
        /\ BagToSet(vout) \subseteq FullMappings
        /\ \A mu \in FullMappings :
              CopiesIn(mu, vout) =
                  IF InGraph(mu)
                  THEN RowsWith(vclauses[1], mu[vclauses[1].var])
                          * RowsWith(vclauses[2], mu[vclauses[2].var])
                  ELSE 0

----------------------------------------------------------------------------
(* Solution modifiers                                                       *)

\* the ordered, projected, deduplicated solutions of the query
Modified(q, s) ==
    LET o == IF q.order THEN orderBy(s) ELSE s
        p == select(o, q)
    IN  IF q.distinct THEN distinct(p) ELSE p

Min(a, b) == IF a < b THEN a ELSE b

\* C15: when the plan has completed, its output is the slice of the
\* ordered, projected, deduplicated solutions from position o + 1 to
\* position min(n, o + l), where o is the OFFSET (0 when absent), l the
\* LIMIT (no limit when absent) and n the number of modified solutions.
C15_ModifierOrder ==
    mpc = "done" =>
        LET D == Modified(mquery, minput)
            o == IF mquery.hasOffset THEN mquery.offset ELSE 0
            hi == IF mquery.hasLimit THEN Min(Len(D), o + mquery.limit) ELSE Len(D)
        IN  mseq = SubSeq(D, o + 1, hi)

\* SELECT DISTINCT ?x ... ORDER BY ?y OFFSET 1 LIMIT 1 has completed on
\* three solutions, two of which are equal after projection only
C15_Witness ==
    /\ mpc = "done"
    /\ mquery.order /\ mquery.selectX /\ mquery.distinct
    /\ mquery.hasOffset /\ mquery.offset = 1
    /\ mquery.hasLimit /\ mquery.limit = 1
    /\ Len(minput) = 3
    /\ Len(Modified(mquery, minput)) = 2
    /\ Len(mseq) = 1

----------------------------------------------------------------------------
(* Bindings as sets of mappings                                             *)

\* two terms are equal RDF terms: same kind and same value
termEquals(t1, t2) == t1.termType = t2.termType /\ t1.value = t2.value

\* C16: after m1.union(m2), the result binds the variables of m1 and of m2,
\* agrees with m2 on the variables of m2 and with m1 on the others, and m1
\* and m2 bind what they bound before the call.
C16_UnionRightOverwrites ==
    "union" \in sdone =>
        LET m1 == sorig[1]
            m2 == sorig[2]
            r == sres.union
        IN  /\ DOMAIN r = DOMAIN m1 \cup DOMAIN m2
            /\ \A n \in DOMAIN m2 : r[n] = m2[n]
            /\ \A n \in DOMAIN m1 \ DOMAIN m2 : r[n] = m1[n]
            /\ sm1 = m1
            /\ sm2 = m2

\* union was called on two mappings that bind ?x to different IRIs
C16_Witness ==
    /\ "union" \in sdone
    /\ "x" \in DOMAIN sorig[1] /\ "x" \in DOMAIN sorig[2]
    /\ sorig[1]["x"].value # sorig[2]["x"].value
    /\ "y" \in DOMAIN sorig[1] /\ "y" \notin DOMAIN sorig[2]

\* C17: m1.equals(m2) returned true exactly when m1 and m2 have the same
\* domain and bind every variable to equal RDF terms, whatever the identity
\* of the term objects.
C17_EqualsIsStructural ==
    "equals" \in sdone =>
        (sres.equals <=>
            /\ DOMAIN sm1 = DOMAIN sm2
            /\ \A n \in DOMAIN sm1 : termEquals(sm1[n], sm2[n]))

\* C18: once intersection, difference and isSubset were called on m1 and
\* m2: the two results have disjoint domains and together hold exactly the
\* bindings of m1, and isSubset returned true exactly when the difference is
\* empty, which is exactly when the intersection has the size of m1.
C18_IntersectionDifferencePartition ==
    {"intersection", "difference", "isSubset"} \subseteq sdone =>
        LET i == sres.intersection
            d == sres.difference
        IN  /\ DOMAIN i \cap DOMAIN d = {}
            /\ DOMAIN i \cup DOMAIN d = DOMAIN sm1
            /\ \A n \in DOMAIN i : i[n] = sm1[n]
            /\ \A n \in DOMAIN d : d[n] = sm1[n]
            /\ sres.isSubset <=> (DOMAIN d = {})
            /\ sres.isSubset <=> (Cardinality(DOMAIN i) = Cardinality(DOMAIN sm1))

\* the three operations were called on mappings that share the binding of
\* ?x and bind ?y differently
C18_Witness ==
    /\ {"intersection", "difference", "isSubset"} \subseteq sdone
    /\ DOMAIN sm1 = {"x", "y"} /\ DOMAIN sm2 = {"x", "y"}
    /\ sm1["x"] = sm2["x"]
    /\ sm1["y"].value # sm2["y"].value
    /\ DOMAIN sres.intersection = {"x"}
    /\ DOMAIN sres.difference = {"y"}

\* twenty minutes, in milliseconds
TwentyMinutes == 20 * 60 * 1000

\* the units a max age can be counted in: milliseconds, seconds, minutes
AgeUnits == {1, 1000, 60 * 1000}

\* C19: useCache() installs an LRU cache of 500 entries and 20 minutes max age,
\* useCache(c) installs c, disableCache() removes the cache, and a build() without
\* explicit context gives its context the cache in force at that call.
C19_UseCacheDefaults ==
    /\ cacheOn <=> currentCache # NullCache
    /\ currentCache \in {NullCache, DefaultCache} \cup CustomCaches
    /\ currentCache.kind = "default" =>
          /\ currentCache.maxSize = 500
          /\ \E u \in AgeUnits : currentCache.maxAge = TwentyMinutes \div u
    /\ qpc # "idle" => (ctx.instance = currentCache /\ ctx.cache = cacheOn)

\* C20: building a CREATE GRAPH <g> update returns a consumable, and once its
\* execute() has completed the dataset reports g as a named graph, for a graph g
\* that was not in the dataset before and a dataset that has a graph factory;
\* such an update, alone in its request, does not fail.
C20_CreateGraphAddsNamedGraph ==
    /\ upc # "idle" => uplan = "consumable"
    /\ \A i \in DOMAIN urequest :
          (upc = "done" /\ ubefore.factory /\ ~hasNamedGraph(ubefore, urequest[i].graph))
              => hasNamedGraph(dataset, urequest[i].graph)
    /\ (Len(urequest) = 1 /\ ubefore.factory /\ ~hasNamedGraph(ubefore, urequest[1].graph))
          => upc # "failed"

C20_Witness ==
    /\ upc = "done"
    /\ Len(urequest) = 1
    /\ ubefore = [named |-> {"gC"}, factory |-> TRUE]
    /\ urequest[1].graph = "gB"
    /\ hasNamedGraph(dataset, "gB")

----------------------------------------------------------------------------
(* The BGP stage                                                            *)

\* C22: every mapping the BGP stage emits has gone through the join stage
\* of every full-text-search query extracted from the BGP, in every
\* evaluation path, the one with a variable graph included.
C22_FtsAppliedOnEveryPath ==
    \A j \in DOMAIN gout : gout[j].fts = gqueries

\* the variables that stand for the blank nodes of the BGP
Synthetic == {slice2(t.value) : t \in {u \in Range(termsOf(gpatterns)) : isBlankNode(u)}}

\* C23: the variables that replace the blank nodes of the BGP differ from
\* every variable of the query and of the input mappings; no output mapping
\* binds one of them, and every output mapping still binds the variables of
\* its input mapping and the variables of the BGP.
C23_BlankNodeVariablesFresh ==
    gpc # "idle" =>
        /\ Synthetic \cap variablesOf(gpatterns) = {}
        /\ \A i \in DOMAIN ginput : Synthetic \cap DOMAIN ginput[i] = {}
        /\ \A j \in DOMAIN gout :
            /\ DOMAIN gout[j].mu \cap Synthetic = {}
            /\ DOMAIN ginput[gout[j].src] \subseteq DOMAIN gout[j].mu
            /\ variablesOf(gpatterns) \subseteq DOMAIN gout[j].mu

----------------------------------------------------------------------------
(* DESCRIBE                                                                 *)

\* the CONSTRUCT query a DESCRIBE query stands for: the rewritten form with
\* the solution modifiers of the DESCRIBE query
AsConstruct(q) ==
    [describeToConstruct(q) EXCEPT
        !.hasOrder = q.hasOrder, !.hasDistinct = q.hasDistinct,
        !.hasOffset = q.hasOffset, !.offset = q.offset,
        !.hasLimit = q.hasLimit, !.limit = q.limit]

\* C24: the query planned for a DESCRIBE query keeps its prefixes, FROM and
\* WHERE groups and adds one triple pattern per described resource, and the
\* plan emits what the CONSTRUCT query with the same ORDER BY, DISTINCT,
\* OFFSET and LIMIT emits: with LIMIT n, at most n triples.
C24_DescribeKeepsModifiers ==
    (dpc = "done" /\ dquery.queryType = "DESCRIBE") =>
        /\ dplanned.prefixes = dquery.prefixes
        /\ dplanned.from = dquery.from
        /\ SubSeq(dplanned.where, 1, Len(dquery.where)) = dquery.where
        /\ Len(dplanned.template) = Len(dquery.variables)
        /\ dout = planOutput(AsConstruct(dquery), dinput)
        /\ dquery.hasLimit => Len(dout) <= dquery.limit

----------------------------------------------------------------------------
(* Nesting and the LIMIT/OFFSET flag                                        *)

\* the BGP stage at path is inside a subquery of the query
InSubquery(path) == nquery.patterns[path[1]].type = "query"

\* C25: when the outer query has LIMIT or OFFSET, no BGP stage of the plan
\* goes through the cache, whether in a group, a UNION branch or a subquery;
\* and when it has neither and a cache is set, every BGP stage outside the
\* subqueries goes through the cache, whatever the subqueries' own LIMIT.
C25_LimitOffsetFlagInherited ==
    npc = "done" =>
        /\ HasLimitOffset(nquery) => ncached = {}
        /\ (~HasLimitOffset(nquery) /\ ncache) =>
              \A i \in DOMAIN nplan :
                  ~InSubquery(nplan[i].path) => nplan[i].path \in ncached

----------------------------------------------------------------------------
(* Aggregates                                                               *)

\* C26: evaluating aggregates, DISTINCT ones included, leaves the term
\* lists of the __aggregate group as they were, and every non-DISTINCT
\* aggregate returns what it returns on the group as it was built, whatever
\* was evaluated before it.
C26_DistinctAggregateKeepsGroup ==
    /\ arows = aorig
    /\ \A i \in DOMAIN ares :
          ~aexprs[i].distinct =>
              ares[i] = aggregation(aexprs[i].aggregation, aexprs[i].variable, aorig)

----------------------------------------------------------------------------
(* indexJoin                                                                *)

\* the triple t is an answer of graph.find for the bounded pattern bp
IsAnswer(t, bp) ==
    /\ Matches(t, bp)
    /\ \A k1 \in DOMAIN bp, k2 \in DOMAIN bp :
          (isVariable(bp[k1]) /\ bp[k1] = bp[k2]) => t[k1] = t[k2]

\* C28: for the input mapping m and every triple graph.find has returned for
\* the pattern bound by m, indexJoin has emitted exactly one mapping, which
\* binds every position that is a variable in the bound pattern to the
\* triple's term there and contains m; blank nodes in the triple included,
\* the stage has not failed.
C28_IndexJoinOnePerTriple ==
    LET bp == bound(jin, jpattern)
    IN  (/\ jkind = "indexJoin"
         /\ \A i \in DOMAIN jitems : IsAnswer(jitems[i].triple, bp)) =>
            /\ jpc # "errored"
            /\ Len(jout) = Len(jitems)
            /\ \A i \in DOMAIN jout :
                /\ \A k \in DOMAIN bp :
                      isVariable(bp[k]) =>
                          /\ bp[k].value \in DOMAIN jout[i]
                          /\ jout[i][bp[k].value] = jitems[i].triple[k]
                /\ \A n \in DOMAIN jin : n \in DOMAIN jout[i] /\ jout[i][n] = jin[n]

----------------------------------------------------------------------------
(* Planning a parsed query                                                  *)

\* C27: building a plan leaves the parsed query tree as the parser returned
\* it (the variables list keeps its variable-expressions, every BGP group
\* keeps its own triples), and the plans built from the same tree are equal.
C27_BuildLeavesTreeUnchanged ==
    tpc = "parsed" =>
        /\ ttree = tparsed
        /\ \A i \in DOMAIN tplans, j \in DOMAIN tplans : tplans[i] = tplans[j]

\* the rank of a group kind: 0 for a BGP and a GRAPH clause with an IRI, 4 for
\* a FILTER, 5 for a GRAPH clause with a variable, 1 for every other kind
RankOf(g) ==
    IF g.type = "bgp" \/ (g.type = "graph" /\ g.name.termType = "NamedNode") THEN 0
    ELSE IF g.type = "filter" THEN 4
    ELSE IF g.type = "graph" THEN 5
    ELSE 1

\* the groups of each rank in their original relative order, rank by rank
InRankOrder(groups) ==
    SelectSeq(groups, LAMBDA g : RankOf(g) = 0)
        \o SelectSeq(groups, LAMBDA g : RankOf(g) = 1)
        \o SelectSeq(groups, LAMBDA g : RankOf(g) = 4)
        \o SelectSeq(groups, LAMBDA g : RankOf(g) = 5)

\* every run of adjacent BGPs replaced by one BGP with their triples in order
RECURSIVE MergeAdjacent(_)
MergeAdjacent(s) ==
    IF Len(s) < 2 THEN s
    ELSE IF s[1].type = "bgp" /\ s[2].type = "bgp"
         THEN MergeAdjacent(<<Group("bgp", NoTerm, s[1].triples \o s[2].triples)>>
                                \o SubSeq(s, 3, Len(s)))
         ELSE <<s[1]>> \o MergeAdjacent(Tail(s))

\* C30: the groups _buildWhere evaluates are the groups it was given (VALUES
\* clauses aside) in non-decreasing rank, groups of equal rank in their
\* original relative order, adjacent BGPs merged into one BGP with their
\* triples in order; every FILTER comes after every BGP, OPTIONAL, UNION and
\* BIND of the clause.
C30_WhereGroupsInRankOrder ==
    \A k \in DOMAIN tplans :
        LET groups == SelectSeq(tgiven[k].where, LAMBDA g : g.type # "values")
            plan == tplans[k].where
        IN  /\ plan = MergeAdjacent(InRankOrder(groups))
            /\ \A a \in DOMAIN plan, b \in DOMAIN plan :
                  a < b => RankOf(plan[a]) <= RankOf(plan[b])
            /\ \A a \in DOMAIN plan, b \in DOMAIN plan :
                  (/\ plan[a].type = "filter"
                   /\ plan[b].type \in {"bgp", "optional", "union", "bind"}) => b < a

\* a clause FILTER, BGP, BGP has been planned: both BGPs first, merged in
\* their order, then the FILTER
C30_Witness ==
    /\ Len(tplans) > 0
    /\ tgiven[1].where = << Group("filter", NoTerm, <<>>),
                            Group("bgp", NoTerm, <<"t2">>),
                            Group("bgp", NoTerm, <<"t1">>) >>
    /\ tplans[1].where = << Group("bgp", NoTerm, <<"t2", "t1">>),
                            Group("filter", NoTerm, <<>>) >>

----------------------------------------------------------------------------
(* xmlFormat                                                                *)

\* the formatted pipeline has completed after the closing tags
CompletedAfterClosingTags ==
    /\ xsub = "completed"
    /\ Len(xout) >= Len(closingTags)
    /\ SubSeq(xout, Len(xout) - Len(closingTags) + 1, Len(xout)) = closingTags

\* C29: once subscribed, the formatted pipeline always terminates: the
\* source completes and the pipeline completes after the closing tags, or
\* the source fails and its error is delivered to the subscriber.
C29_XmlFormatTerminates ==
    (xpc = "subscribed") ~>
        \/ xsource.end = "complete" /\ CompletedAfterClosingTags
        \/ xsource.end = "error" /\ xsub = "errored"

====
